---- MODULE Spec2Model ----
(***************************************************************************)
(* The Octave bridge of BasisREMY: OctaveManager (core/octave_manager.py)  *)
(* and DockerOctave (docker_setup/docker_octave.py), together with the     *)
(* part of the Docker engine the two talk to (images, named containers).   *)
(*                                                                         *)
(* Spec        the manager: probes, initialize_octave, session             *)
(*             construction run to completion against the engine.         *)
(* SpecSession one constructed DockerOctave session: eval, addpath,        *)
(*             feval, exit, __exit__, __del__, stop_container.             *)
(* SpecConc    two DockerOctave constructions whose engine calls           *)
(*             interleave.                                                 *)
(* SpecMarshal feval marshaling its arguments for a function that returns  *)
(*             its first argument, octave-cli and loadmat included.        *)
(* SpecVerbose the manager and BASISREMY_VERBOSE: construction with the    *)
(*             variable at any value, the variable changed afterwards.     *)
(* SpecScript  the script feval writes for calls with several arguments   *)
(*             and results, persistent and transient commands registered.  *)
(* SpecConstruct sessions constructed one after another under two names,   *)
(*             stop_container and the process helpers in between.          *)
(* SpecBackend a backend (backends/base.py, lcmodel_backend.py) running    *)
(*             simulations: initialization on demand with the Docker       *)
(*             probe over its endpoints, setup_octave_paths, one feval.    *)
(* SpecRace    feval calls of several callers step by step: script write,  *)
(*             pgrep, octave-cli and load interleave.                      *)
(***************************************************************************)
EXTENDS Integers, Sequences, FiniteSets, TLC

VARIABLES
    \* OctaveManager fields (octave_manager.py 40-48)
    runtime_type, octave_instance, docker_available, local_octave_available,
    verbose,
    \* os.environ['BASISREMY_VERBOSE'] ('' when unset), and what the manager
    \* was constructed with: its verbose argument and the variable then
    environ, ctor,
    \* Docker engine: the image tag, the containers, the next container id
    image_present, containers, next_container,
    \* history of the manager: number of initialize_octave calls, the first
    \* successful initialization, and the last operation with its outcome
    calls, first, last,
    \* DockerOctave fields (docker_octave.py 44-57, 98) and the two shared files
    session_verbose, commands, persistent_commands, container,
    script_file, result_file,
    \* history of the session: the last operation and its outcome
    flast,
    \* interleaved constructions: position, lookup result and handle of each
    pc, found, handle,
    \* interleaved feval calls: each caller's call, and the files under
    \* docker_setup/octave_shared by path
    invocation, shared,
    \* a backend's session: Backend.octave (backends/base.py 28)
    octave

mgrVars == <<runtime_type, octave_instance, docker_available,
             local_octave_available, verbose, environ, ctor, calls, first, last>>
engVars == <<image_present, containers, next_container>>
sessVars == <<session_verbose, commands, persistent_commands, container,
              script_file, result_file, flast>>
concVars == <<pc, found, handle>>
callVars == <<invocation, shared, octave>>
vars == <<mgrVars, engVars, sessVars, concVars, callVars>>

----------------------------------------------------------------------------
\* Bounds of the model.

\* initialize_octave calls on one manager
MaxCalls == 3
\* sessions constructed side by side
Constructors == 2

----------------------------------------------------------------------------
\* The Docker engine as the code uses it.

\* DockerOctave.__init__'s default container_name
container_name == "octave_runner"

NotFound == 0

\* client.containers.get(name): the id of the container of that name, or NotFound
ContainersGet(cs, name) ==
    IF \E c \in cs : c.name = name
    THEN (CHOOSE c \in cs : c.name = name).id
    ELSE NotFound

StatusOf(cs, id) == (CHOOSE c \in cs : c.id = id).status

\* container.start(): the container of that id is running afterwards
ContainerStart(cs, id) ==
    {IF c.id = id THEN [c EXCEPT !.status = "running"] ELSE c : c \in cs}

\* the name= argument handed to client.containers.run
RunNameUnnamed(name) == ""
RunName(name) == name

\* client.containers.run(image, name=..., detach=True): the engine refuses a
\* name that is in use (409 Conflict); an unnamed container gets a fresh name
RunConflicts(cs, name) == name # "" /\ \E c \in cs : c.name = name

\* line 47: os.getcwd(), the directory the program runs in
project_root == "cwd"

\* the volumes= argument with the directory mounted read-only
VolumesReadOnly(root) == [host |-> root, bind |-> "/workspace", mode |-> "ro"]
\* line 111: volumes={self.project_root: {'bind': '/workspace', 'mode': 'rw'}}
Volumes(root) == [host |-> root, bind |-> "/workspace", mode |-> "rw"]

\* line 110: the command that keeps the container alive
KeepAlive == "tail -f /dev/null"

\* a container as lines 107-114 create it
Container(id, name, status) ==
    [id |-> id, name |-> name, status |-> status,
     command |-> KeepAlive, volumes |-> Volumes(project_root),
     working_dir |-> "/workspace"]

ContainersRun(cs, name, id) ==
    cs \cup {Container(id, name, "running")}

\* container.stop() / container.remove()
ContainerStop(cs, id) ==
    {IF c.id = id THEN [c EXCEPT !.status = "exited"] ELSE c : c \in cs}
ContainerRemove(cs, id) == {c \in cs : c.id # id}

Exists(cs, id) == \E c \in cs : c.id = id

\* what can go wrong in the engine during one construction
Faults == {"none", "connect", "build", "start", "run"}

----------------------------------------------------------------------------
\* DockerOctave.__init__ run to completion (no other engine client in between).

NoError == [type |-> "none", msg |-> "", exit_code |-> -1, output |-> <<>>]

\* lines 144-150: the decoded entries client.api.build streams, the last one
\* an error entry when the build fails
BuildLogs(fault) ==
    <<[kind |-> "stream", text |-> "Step 1/9 : FROM gnuoctave/octave"],
      [kind |-> "stream", text |-> "Step 2/9 : RUN apt-get update"]>>
    \o (IF fault = "build"
        THEN <<[kind |-> "error",
                text |-> "The command returned a non-zero code: 100"]>>
        ELSE <<[kind |-> "stream", text |-> "Successfully built"]>>)

\* lines 153-159: the entries read from the stream, up to the first error
ReadUpToError(logs) ==
    LET errs == {i \in 1..Len(logs) : logs[i].kind = "error"} IN
    IF errs = {} THEN logs
    ELSE SubSeq(logs, 1, CHOOSE i \in errs : \A j \in errs : i <= j)

Texts(logs) == [i \in 1..Len(logs) |-> logs[i].text]

\* lines 161-174: RuntimeError("Failed to build ... Error: {e}"), e being
\* BuildError(log['error'], build_logs), whose text is the error entry's;
\* output holds the lines of the log that the text of the error holds
BuildFailed(reason) ==
    [type |-> "RuntimeError",
     msg |-> "Failed to build BasisREMY Octave Docker image. Error: " \o reason,
     exit_code |-> -1, output |-> <<reason>>]

\* what a failing engine call raises
EngineError(call) ==
    [type |-> "DockerException", msg |-> call, exit_code |-> -1, output |-> <<>>]

\* _ensure_octave_image: whether it returned, the image afterwards, the
\* engine calls made, the entries read from the build and the lines printed
ensure_octave_image(image, fault) ==
    LET read == ReadUpToError(BuildLogs(fault))
        shown == Texts(SelectSeq(read, LAMBDA l : l.kind = "stream"))
    IN
    IF image
    THEN [ok |-> TRUE, image |-> TRUE, built |-> FALSE,
          calls |-> <<"images.get">>, log |-> <<>>, printed |-> <<>>,
          error |-> NoError]
    ELSE IF fault = "build"
    THEN [ok |-> FALSE, image |-> FALSE, built |-> FALSE,
          calls |-> <<"images.get", "api.build">>, log |-> Texts(read),
          printed |-> shown, error |-> BuildFailed(read[Len(read)].text)]
    ELSE [ok |-> TRUE, image |-> TRUE, built |-> TRUE,
          calls |-> <<"images.get", "api.build">>, log |-> Texts(read),
          printed |-> shown, error |-> NoError]

\* lines 96-115: attach to the named container, start it, or create it
AttachOrCreate(cs, name, next, fault) ==
    LET id == ContainersGet(cs, name) IN
    IF id # NotFound
    THEN IF StatusOf(cs, id) # "running"
         THEN IF fault = "start"
              THEN [ok |-> FALSE, containers |-> cs, next |-> next,
                    container |-> id, how |-> "start",
                    calls |-> <<"containers.get", "container.start">>,
                    error |-> EngineError("container.start")]
              ELSE [ok |-> TRUE, containers |-> ContainerStart(cs, id),
                    next |-> next, container |-> id, how |-> "start",
                    calls |-> <<"containers.get", "container.start">>,
                    error |-> NoError]
         ELSE [ok |-> TRUE, containers |-> cs, next |-> next,
               container |-> id, how |-> "reuse",
               calls |-> <<"containers.get">>, error |-> NoError]
    ELSE IF fault = "run" \/ RunConflicts(cs, RunName(name))
         THEN [ok |-> FALSE, containers |-> cs, next |-> next,
               container |-> NotFound, how |-> "run",
               calls |-> <<"containers.get", "containers.run">>,
               error |-> EngineError("containers.run")]
         ELSE [ok |-> TRUE, containers |-> ContainersRun(cs, RunName(name), next),
               next |-> next + 1, container |-> next, how |-> "run",
               calls |-> <<"containers.get", "containers.run">>,
               error |-> NoError]

\* DockerOctave.__init__: connect, image, container
DockerOctaveInit(image, cs, next, name, fault) ==
    IF fault = "connect"
    THEN [ok |-> FALSE, image |-> image, containers |-> cs, next |-> next,
          container |-> NotFound, how |-> "connect",
          calls |-> <<"ping">>, log |-> <<>>, printed |-> <<>>,
          error |-> [type |-> "RuntimeError",
                     msg |-> "Failed to connect to Docker.",
                     exit_code |-> -1, output |-> <<>>]]
    ELSE LET img == ensure_octave_image(image, fault) IN
         IF ~img.ok
         THEN [ok |-> FALSE, image |-> img.image, containers |-> cs,
               next |-> next, container |-> NotFound, how |-> "build",
               calls |-> <<"ping">> \o img.calls, log |-> img.log,
               printed |-> img.printed, error |-> img.error]
         ELSE LET a == AttachOrCreate(cs, name, next, fault) IN
              [ok |-> a.ok, image |-> img.image, containers |-> a.containers,
               next |-> a.next, container |-> a.container, how |-> a.how,
               calls |-> <<"ping">> \o img.calls \o a.calls, log |-> img.log,
               printed |-> img.printed, error |-> a.error]

----------------------------------------------------------------------------
\* OctaveManager.

NoSession == [id |-> 0, kind |-> "None", verbose |-> FALSE, container |-> NotFound]

\* the guide with the whole section of an available backend left out
instructions_pruning_sections(docker_checked, octave_checked) ==
    <<"Octave Runtime Not Available">>
    \o (IF ~docker_checked
        THEN <<"OPTION 1: Use Docker (Recommended)",
               "Docker is not installed or not running.">>
        ELSE <<>>)
    \o (IF ~octave_checked
        THEN <<"OPTION 2: Install Octave Locally",
               "Local Octave installation not found.">>
        ELSE <<>>)

\* _get_installation_instructions: the lines of the guide, by what they say;
\* docker_checked and octave_checked are the results of the probes it runs
get_installation_instructions(docker_checked, octave_checked) ==
    <<"Octave Runtime Not Available", "OPTION 1: Use Docker (Recommended)">>
    \o (IF ~docker_checked THEN <<"Docker is not installed or not running.">>
        ELSE <<"Docker is available!">>)
    \o <<"OPTION 2: Install Octave Locally">>
    \o (IF ~octave_checked THEN <<"Local Octave installation not found.">>
        ELSE <<"Local Octave is available!">>)

\* the order in which initialize_octave tries the backends
TryOrderDockerFirst(prefer_docker) == <<"docker", "local">>
TryOrder(prefer_docker) ==
    IF prefer_docker THEN <<"docker", "local">> ELSE <<"local", "docker">>

\* lines 136-153: the backend whose construction is attempted, "None" when
\* neither probe answers; probe(b) is evaluated in the order given
SelectNoFallback(order, dOk, lOk) ==
    LET ok(b) == IF b = "docker" THEN dOk ELSE lOk IN
    IF ok(order[1]) THEN order[1] ELSE "None"
Select(order, dOk, lOk) ==
    LET ok(b) == IF b = "docker" THEN dOk ELSE lOk IN
    IF ok(order[1]) THEN order[1]
    ELSE IF ok(order[2]) THEN order[2]
    ELSE "None"

\* the probes initialize_octave evaluates before it decides, in order
\* lines 136-153 with a probe that fails run a second time before going on
ProbesRunRetrying(order, dOk, lOk) ==
    LET ok(b) == IF b = "docker" THEN dOk ELSE lOk IN
    IF ok(order[1]) THEN <<[backend |-> order[1], result |-> TRUE]>>
    ELSE <<[backend |-> order[1], result |-> FALSE],
           [backend |-> order[1], result |-> FALSE],
           [backend |-> order[2], result |-> ok(order[2])]>>

ProbesRun(order, dOk, lOk) ==
    LET ok(b) == IF b = "docker" THEN dOk ELSE lOk IN
    IF ok(order[1]) THEN <<[backend |-> order[1], result |-> TRUE]>>
    ELSE <<[backend |-> order[1], result |-> FALSE],
           [backend |-> order[2], result |-> ok(order[2])]>>

NoMessage == <<>>

NoInfo == [runtime_type |-> "None", docker_available |-> FALSE,
           local_octave_available |-> FALSE, verbose |-> FALSE]

\* the record of one manager operation; verbose is the verbose argument of
\* an initialize_octave call, info what get_runtime_info returned
NoOp == [op |-> "none", prefer_docker |-> FALSE, verbose |-> "None",
         env |-> [docker |-> FALSE, local |-> FALSE], probes |-> <<>>,
         again |-> <<>>, constructed |-> <<>>, outcome |-> "none",
         error |-> "none", ret |-> NoSession, msg |-> NoMessage,
         info |-> NoInfo,
         endpoints |-> [package |-> TRUE, states |-> <<>>, tried |-> <<>>]]

\* --- BASISREMY_VERBOSE (lines 46-48) ---

Unset == <<>>

\* values of the variable, as characters
EnvValues ==
    {Unset, <<"1">>, <<"0">>, <<"t", "r", "u", "e">>, <<"T", "R", "U", "E">>,
     <<"Y", "e", "s">>, <<"o", "n">>}

\* str.lower()
LowerChar(c) ==
    CASE c = "T" -> "t" [] c = "R" -> "r" [] c = "U" -> "u" [] c = "E" -> "e"
      [] c = "Y" -> "y" [] OTHER -> c
Lower(t) == [i \in 1..Len(t) |-> LowerChar(t[i])]

\* the comparison of line 47 without lower()
EnvVerboseCaseSensitive(value) ==
    value \in {<<"1">>, <<"t", "r", "u", "e">>, <<"y", "e", "s">>}

\* line 47: os.environ.get('BASISREMY_VERBOSE', '').lower() in ('1', 'true', 'yes')
EnvVerbose(value) ==
    Lower(value) \in {<<"1">>, <<"t", "r", "u", "e">>, <<"y", "e", "s">>}

\* the client sets or deletes the variable after the manager was constructed
setenv(value) ==
    /\ environ' = value
    /\ UNCHANGED <<runtime_type, octave_instance, docker_available,
                   local_octave_available, verbose, ctor, calls, first, last>>
    /\ UNCHANGED <<engVars, sessVars, concVars, callVars>>

\* get_runtime_info(): lines 251-258
RuntimeInfo ==
    [runtime_type |-> runtime_type, docker_available |-> docker_available,
     local_octave_available |-> local_octave_available, verbose |-> verbose]

get_runtime_info ==
    /\ last' = [NoOp EXCEPT !.op = "get_runtime_info", !.outcome = "returned",
                            !.info = RuntimeInfo]
    /\ UNCHANGED <<runtime_type, octave_instance, docker_available,
                   local_octave_available, verbose, environ, ctor, calls, first>>
    /\ UNCHANGED <<engVars, sessVars, concVars, callVars>>

\* check_docker_availability / check_local_octave_availability: the flag is
\* set on a probe that answers and is left alone on one that does not
FlagAfter(flag, results) ==
    flag \/ \E i \in 1..Len(results) : results[i]

ResultsOf(probes, b) ==
    LET idx == {i \in 1..Len(probes) : probes[i].backend = b} IN
    IF idx = {} THEN <<>> ELSE <<probes[CHOOSE i \in idx : TRUE].result>>

\* a client calls check_docker_availability()
check_docker_availability(result) ==
    /\ docker_available' = FlagAfter(docker_available, <<result>>)
    /\ last' = [NoOp EXCEPT !.op = "check_docker_availability",
                            !.probes = <<[backend |-> "docker", result |-> result]>>,
                            !.outcome = "returned"]
    /\ UNCHANGED <<runtime_type, octave_instance, local_octave_available,
                   verbose, environ, ctor, calls, first>>
    /\ UNCHANGED <<engVars, sessVars, concVars, callVars>>

\* a client calls check_local_octave_availability()
check_local_octave_availability(result) ==
    /\ local_octave_available' = FlagAfter(local_octave_available, <<result>>)
    /\ last' = [NoOp EXCEPT !.op = "check_local_octave_availability",
                            !.probes = <<[backend |-> "local", result |-> result]>>,
                            !.outcome = "returned"]
    /\ UNCHANGED <<runtime_type, octave_instance, docker_available,
                   verbose, environ, ctor, calls, first>>
    /\ UNCHANGED <<engVars, sessVars, concVars, callVars>>

\* runtime_type assigned ahead of the session's construction
KindSetBeforeConstruction(ok, chosen, kind) ==
    IF chosen = "None" THEN kind ELSE chosen
\* lines 165-166, 180-181: runtime_type is assigned after the constructor
\* returned, and not at all when it raised
KindAfter(ok, chosen, kind) == IF ok THEN chosen ELSE kind

\* the inputs of one initialize_octave call that the call does not consult
\* are held at one value: a probe that is not run, a constructor that is
\* not called, an engine fault at a step that is not reached
Consulted(order, dOk, lOk, dAgain, lAgain, fault, localOk) ==
    LET ok(b) == IF b = "docker" THEN dOk ELSE lOk
        chosen == IF ok(order[1]) THEN order[1]
                  ELSE IF ok(order[2]) THEN order[2] ELSE "None"
        id == ContainersGet(containers, container_name)
    IN  /\ chosen # "None" => ~dAgain /\ ~lAgain
        /\ chosen # "docker" => fault = "none"
        /\ chosen # "local" => localOk
        /\ fault = "build" => ~image_present
        /\ fault = "start" => (id # NotFound /\ StatusOf(containers, id) # "running")
        /\ fault = "run" => id = NotFound

\* initialize_octave(prefer_docker, verbose): vb is "None", "True" or "False";
\* dOk and lOk are what the two probes answer when the decision is made
\* (whether each backend is available then, consulted or not),
\* dAgain and lAgain what they answer when the guide is composed; fault is
\* what goes wrong in the engine during DockerOctave(), localOk whether
\* Oct2Py() constructs
initialize_octave(prefer_docker, vb, dOk, lOk, dAgain, lAgain, fault, localOk) ==
    /\ calls < MaxCalls
    /\ Consulted(TryOrder(prefer_docker), dOk, lOk, dAgain, lAgain, fault, localOk)
    /\ LET v == IF vb = "None" THEN verbose ELSE vb = "True"
           order == TryOrder(prefer_docker)
           probes == ProbesRun(order, dOk, lOk)
           chosen == Select(order, dOk, lOk)
           again == IF chosen = "None"
                    THEN <<[backend |-> "docker", result |-> dAgain],
                           [backend |-> "local", result |-> lAgain]>>
                    ELSE <<>>
           d == DockerOctaveInit(image_present, containers, next_container,
                                 container_name, fault)
           ok == \/ chosen = "docker" /\ d.ok
                 \/ chosen = "local" /\ localOk
           new == IF chosen = "docker"
                  THEN [id |-> calls + 1, kind |-> "docker", verbose |-> v,
                        container |-> d.container]
                  ELSE [id |-> calls + 1, kind |-> "local", verbose |-> FALSE,
                        container |-> NotFound]
       IN
       /\ verbose' = v
       /\ calls' = calls + 1
       /\ docker_available' =
              FlagAfter(docker_available,
                        ResultsOf(probes, "docker") \o ResultsOf(again, "docker"))
       /\ local_octave_available' =
              FlagAfter(local_octave_available,
                        ResultsOf(probes, "local") \o ResultsOf(again, "local"))
       /\ IF chosen = "docker"
          THEN /\ image_present' = d.image
               /\ containers' = d.containers
               /\ next_container' = d.next
          ELSE UNCHANGED engVars
       /\ runtime_type' = KindAfter(ok, chosen, runtime_type)
       /\ IF ok
          THEN /\ octave_instance' = new
               /\ first' = IF first = NoSession THEN new ELSE first
          ELSE UNCHANGED <<octave_instance, first>>
       /\ last' = [op |-> "initialize_octave",
                   prefer_docker |-> prefer_docker,
                   verbose |-> vb,
                   info |-> NoInfo,
                   endpoints |-> NoOp.endpoints,
                   env |-> [docker |-> dOk, local |-> lOk],
                   probes |-> probes,
                   again |-> again,
                   constructed |-> IF chosen = "None" THEN <<>> ELSE <<chosen>>,
                   outcome |-> IF ok THEN "returned" ELSE "RuntimeError",
                   error |-> IF ok THEN "none"
                             ELSE IF chosen = "docker"
                                  THEN "Failed to initialize Docker Octave"
                             ELSE IF chosen = "local"
                                  THEN "Failed to initialize local Octave"
                             ELSE "Octave Runtime Not Available",
                   ret |-> IF ok THEN new ELSE NoSession,
                   msg |-> IF chosen = "None"
                           THEN get_installation_instructions(dAgain, lAgain)
                           ELSE NoMessage]
    /\ UNCHANGED <<environ, ctor, sessVars, concVars, callVars>>

----------------------------------------------------------------------------
\* Errors DockerOctave raises and the record of the last session operation.

\* line 373: RuntimeError(f"Octave execution failed with exit code {exit_code}")
ExecutionFailed(exit_code, output) ==
    [type |-> "RuntimeError", msg |-> "Octave execution failed with exit code",
     exit_code |-> exit_code, output |-> <<>>]

\* line 384: what scipy.io.loadmat raises for a result.mat it cannot load:
\* open() fails on a missing file, the reader rejects a file it cannot parse
LoadmatError(file) ==
    IF ~file.exists THEN "[Errno 2] No such file or directory: 'result.mat'"
    ELSE "Unknown mat file type"

\* the load error with the text of the exception left out
LoadFailedOpaque(e) ==
    [type |-> "RuntimeError", msg |-> "Failed to load Octave results",
     exit_code |-> -1, output |-> <<>>]

\* line 390: RuntimeError(f"Failed to load Octave results: {e}")
LoadFailed(e) ==
    [type |-> "RuntimeError", msg |-> "Failed to load Octave results: " \o e,
     exit_code |-> -1, output |-> <<>>]

\* line 300: TypeError(f'Unsupported argument type: {type(arg)}')
Unsupported(a) ==
    [type |-> "TypeError", msg |-> "Unsupported argument type: " \o a.type,
     exit_code |-> -1, output |-> <<>>]

\* raised by the docker client when the container is gone or not running
APIError ==
    [type |-> "APIError", msg |-> "container not found or not running",
     exit_code |-> -1, output |-> <<>>]

KeyError ==
    [type |-> "KeyError", msg |-> "variable not in result.mat",
     exit_code |-> -1, output |-> <<>>]

NoFile == [exists |-> FALSE, readable |-> FALSE, vars |-> {}, fresh |-> FALSE]

\* the record of one session operation: the arguments and the verbose
\* argument of a feval, what was run and captured, what was printed, what
\* was loaded and returned, the error raised
Idle == [op |-> "none", args |-> <<>>, nout |-> 1, store_as |-> "None",
         verbose |-> FALSE, outcome |-> "none", error |-> NoError,
         engine |-> <<>>,
         wrote |-> FALSE, execs |-> 0, exit_code |-> -1, output |-> <<>>,
         printed |-> <<>>, loaded |-> FALSE, ret |-> <<>>, shape |-> "none"]

Did(name) == [Idle EXCEPT !.op = name, !.outcome = "returned"]


----------------------------------------------------------------------------
\* Initial states.

\* the engine before the program runs: the image built or not, the named
\* container absent, running or stopped
EngInit ==
    /\ image_present \in BOOLEAN
    /\ \E st \in {"absent", "running", "exited"} :
          /\ containers = IF st = "absent" THEN {}
                          ELSE {Container(1, container_name, st)}
          /\ next_container = IF st = "absent" THEN 1 ELSE 2

\* OctaveManager.__init__(verbose) with the variable at some value
MgrInit ==
    /\ runtime_type = "None"
    /\ octave_instance = NoSession
    /\ docker_available = FALSE
    /\ local_octave_available = FALSE
    /\ environ \in EnvValues
    /\ \E arg \in BOOLEAN :
          /\ ctor = [verbose |-> arg, env |-> environ]
          /\ verbose = (arg \/ EnvVerbose(environ))
    /\ calls = 0
    /\ first = NoSession
    /\ last = NoOp

SessIdle ==
    /\ session_verbose = FALSE
    /\ commands = <<>>
    /\ persistent_commands = <<>>
    /\ container = NotFound
    /\ script_file = <<>>
    /\ result_file = NoFile
    /\ flast = Idle

ConcIdle ==
    /\ pc = <<>>
    /\ found = <<>>
    /\ handle = <<>>

\* no feval call under way, nothing in the shared directory
CallIdle ==
    /\ invocation = <<>>
    /\ shared = <<>>
    /\ octave = NoSession

\* the manager constructed with the variable unset
Init == MgrInit /\ environ = Unset /\ EngInit /\ SessIdle /\ ConcIdle /\ CallIdle

Next ==
    \/ \E r \in BOOLEAN : check_docker_availability(r)
    \/ \E r \in BOOLEAN : check_local_octave_availability(r)
    \/ \E prefer_docker \in BOOLEAN, vb \in {"None", "True", "False"},
          dOk \in BOOLEAN, lOk \in BOOLEAN, dAgain \in BOOLEAN, lAgain \in BOOLEAN,
          fault \in Faults, localOk \in BOOLEAN :
          initialize_octave(prefer_docker, vb, dOk, lOk, dAgain, lAgain,
                            fault, localOk)
    \/ get_runtime_info

Spec == Init /\ [][Next]_vars

\* the manager constructed with the variable at any value, the variable
\* changed afterwards, sessions constructed on an engine that answers
InitVerbose ==
    /\ MgrInit
    /\ EngInit /\ image_present /\ containers = {}
    /\ SessIdle /\ ConcIdle /\ CallIdle

NextVerbose ==
    \/ \E value \in EnvValues : setenv(value)
    \/ \E vb \in {"None", "True", "False"} :
          initialize_octave(TRUE, vb, TRUE, FALSE, FALSE, FALSE, "none", TRUE)
    \/ get_runtime_info

SpecVerbose == InitVerbose /\ [][NextVerbose]_vars

----------------------------------------------------------------------------
\* Claims about OctaveManager (checked under Spec).

IsInit == last.op = "initialize_octave"
Preferred == IF last.prefer_docker THEN "docker" ELSE "local"
Other == IF last.prefer_docker THEN "local" ELSE "docker"
Times(probes, b) == Cardinality({i \in 1..Len(probes) : probes[i].backend = b})
Attempted(b) ==
    Times(last.probes, b) = 1
    \/ \E i \in 1..Len(last.constructed) : last.constructed[i] = b

\* C1: initialize_octave tries the preferred backend first, and whenever it
\* ends in an error (the preferred probe failed or the preferred construction
\* threw) the other backend has been attempted once before the error is raised.
C1_OtherAttemptedBeforeError ==
    IsInit =>
        /\ last.probes[1].backend = Preferred
        /\ last.outcome = "RuntimeError" => Attempted(Other)

ProbedOnly(b) ==
    /\ IsInit
    /\ Other = b
    /\ last.probes = <<[backend |-> Preferred, result |-> FALSE],
                       [backend |-> Other, result |-> TRUE]>>

\* C2 as stated: when the preferred probe fails and the other probe answers,
\* initialize_octave returns a session of the other kind (prefer_docker=True
\* with only the local probe answering gives runtime_type "local", and
\* prefer_docker=False with only the docker probe answering gives "docker").
C2_FallbackAlwaysReturns ==
    \A b \in {"docker", "local"} :
        ProbedOnly(b) =>
            /\ last.outcome = "returned"
            /\ runtime_type = b
            /\ last.ret.kind = b

\* C2 amended: when the preferred probe fails and the other probe answers,
\* initialize_octave constructs the other backend and nothing else; if that
\* construction succeeds it returns the session and runtime_type is the other
\* kind, and if it throws the construction error is raised and runtime_type
\* and octave_instance are what they were before the call.
C2_FallbackSelectsOther ==
    [][\A b \in {"docker", "local"} :
        (calls' = calls + 1 /\ ProbedOnly(b)') =>
            /\ last'.constructed = <<b>>
            /\ \/ /\ last'.outcome = "returned"
                  /\ runtime_type' = b
                  /\ last'.ret.kind = b
                  /\ octave_instance' = last'.ret
               \/ /\ last'.outcome = "RuntimeError"
                  /\ last'.error = (IF b = "docker"
                                    THEN "Failed to initialize Docker Octave"
                                    ELSE "Failed to initialize local Octave")
                  /\ runtime_type' = runtime_type
                  /\ octave_instance' = octave_instance]_vars

\* C2 witness: prefer_docker=True, the docker probe failed, the local probe
\* answered, and the call returned a local session.
C2_Witness ==
    /\ ProbedOnly("local")
    /\ last.outcome = "returned"
    /\ runtime_type = "local"

Has(msg, line) == \E i \in 1..Len(msg) : msg[i] = line

NeitherAnswered ==
    /\ IsInit
    /\ Len(last.probes) = 2
    /\ \A i \in 1..2 : ~last.probes[i].result

\* C3: when neither probe answers, initialize_octave raises (no session is
\* returned or stored by the call) and the message holds the banner "Octave
\* Runtime Not Available" and both option sections; a section carries its
\* remediation text when the probe run for the guide still fails.
C3_NeitherAvailableRaisesGuide ==
    NeitherAnswered =>
        /\ last.outcome = "RuntimeError"
        /\ last.ret = NoSession
        /\ last.constructed = <<>>
        /\ Has(last.msg, "Octave Runtime Not Available")
        /\ Has(last.msg, "OPTION 1: Use Docker (Recommended)")
        /\ Has(last.msg, "OPTION 2: Install Octave Locally")
        /\ ~last.again[1].result =>
               Has(last.msg, "Docker is not installed or not running.")
        /\ ~last.again[2].result =>
               Has(last.msg, "Local Octave installation not found.")

\* C3 witness: a call in which neither probe answered, raising the guide with
\* both remediation texts.
C3_Witness ==
    /\ NeitherAnswered
    /\ last.error = "Octave Runtime Not Available"
    /\ Has(last.msg, "Docker is not installed or not running.")
    /\ Has(last.msg, "Local Octave installation not found.")

\* C4: when both backends are available and the construction succeeds,
\* prefer_docker=True selects docker and prefer_docker=False selects local,
\* and the session returned is the one stored in octave_instance.
C4_PreferenceSelects ==
    (IsInit /\ last.env.docker /\ last.env.local /\ last.outcome = "returned") =>
        /\ runtime_type = Preferred
        /\ last.ret # NoSession
        /\ last.ret = octave_instance
        /\ octave_instance.kind = Preferred
        /\ last.constructed = <<Preferred>>

\* C4 witness: both backends available, prefer_docker=False, a local session
\* returned.
C4_Witness ==
    /\ IsInit /\ last.env.docker /\ last.env.local
    /\ ~last.prefer_docker
    /\ last.outcome = "returned"
    /\ runtime_type = "local"

\* C5: runtime_type and octave_instance are those of the first successful
\* initialize_octave, whatever calls follow.
C5_KindSetOnce ==
    first # NoSession => (runtime_type = first.kind /\ octave_instance = first)

IsProbe(op) ==
    op \in {"check_docker_availability", "check_local_octave_availability"}

\* C12: check_docker_availability and check_local_octave_availability are
\* pure observers: a call returns a boolean, never raises, and leaves every
\* field of the manager as it was.
C12_ProbesChangeNothing ==
    [][IsProbe(last'.op) =>
          /\ last'.outcome = "returned"
          /\ last'.probes[1].result \in BOOLEAN
          /\ UNCHANGED <<runtime_type, octave_instance, docker_available,
                         local_octave_available, verbose>>]_vars

\* C16: get_runtime_info changes nothing and returns the chosen kind, the
\* verbosity flag and, for each backend, whether its probe succeeds: called
\* right after a successful initialize_octave it reports each backend as
\* available exactly when that backend was available to the call.
C16_InfoReportsBothProbes ==
    [][(IsInit /\ last.outcome = "returned"
        /\ last'.op = "get_runtime_info") =>
          /\ last'.info.runtime_type = runtime_type
          /\ last'.info.verbose = verbose
          /\ last'.info.docker_available = last.env.docker
          /\ last'.info.local_octave_available = last.env.local
          /\ UNCHANGED <<runtime_type, octave_instance, docker_available,
                         local_octave_available, verbose, calls>>]_vars

\* the values of BASISREMY_VERBOSE that enable verbose mode
Enabling ==
    {<<"1">>, <<"t", "r", "u", "e">>, <<"T", "R", "U", "E">>, <<"Y", "e", "s">>}

\* C17: until an initialize_octave call, the manager's flag is (constructor
\* argument) or (BASISREMY_VERBOSE as it was at construction is '1', 'true'
\* or 'yes' in any case); a fresh manager has no kind and no session; and
\* setting or deleting the variable afterwards never changes the flag.
C17_VerboseFixedAtConstruction ==
    /\ [](calls = 0 =>
            /\ verbose = (ctor.verbose \/ ctor.env \in Enabling)
            /\ runtime_type = "None"
            /\ octave_instance = NoSession)
    /\ [][environ' # environ => verbose' = verbose]_vars

\* C17 witness: a manager constructed without the argument while the
\* variable was 'TRUE', the variable deleted since, the flag still true.
C17_Witness ==
    /\ calls = 0
    /\ ~ctor.verbose /\ ctor.env = <<"T", "R", "U", "E">>
    /\ environ = Unset
    /\ verbose

\* C19: initialize_octave(verbose=v) constructs the session with v, or with
\* the manager's flag when v is None, which then leaves the flag alone; after
\* the call the manager's flag is what it was before the call.
C19_VerboseRestoredAfterCall ==
    [][calls' = calls + 1 =>
          LET v == IF last'.verbose = "None" THEN verbose
                   ELSE last'.verbose = "True"
          IN  /\ (last'.outcome = "returned" /\ last'.ret.kind = "docker") =>
                     last'.ret.verbose = v
              /\ verbose' = verbose]_vars

ProbeOf(b) == last.probes[CHOOSE i \in 1..Len(last.probes) :
                              last.probes[i].backend = b].result

\* C20: initialize_octave produces the guide exactly when both of its probes
\* failed, and the guide shows each backend as its probe reported it: the
\* remediation text when the probe failed, the 'is available' line when it
\* answered.
C20_GuideAgreesWithProbes ==
    IsInit =>
        /\ last.msg # NoMessage <=> NeitherAnswered
        /\ last.msg # NoMessage =>
              /\ Has(last.msg, "Docker is not installed or not running.")
                     <=> ~ProbeOf("docker")
              /\ Has(last.msg, "Docker is available!") <=> ProbeOf("docker")
              /\ Has(last.msg, "Local Octave installation not found.")
                     <=> ~ProbeOf("local")
              /\ Has(last.msg, "Local Octave is available!") <=> ProbeOf("local")

\* C33: an initialize_octave call ends returning a session or raising; it
\* constructs at most one session and no backend twice; it runs each probe
\* at most once to choose and at most once more for the guide, the second
\* time only in a call that raises with the guide.
C33_InitializeOneShot ==
    IsInit =>
        /\ last.outcome \in {"returned", "RuntimeError"}
        /\ last.outcome = "returned" <=> last.ret # NoSession
        /\ Len(last.constructed) <= 1
        /\ \A b \in {"docker", "local"} :
              /\ Times(last.probes, b) <= 1
              /\ Times(last.again, b) <= 1
              /\ Times(last.again, b) = 1 =>
                    /\ last.outcome = "RuntimeError" /\ last.msg # NoMessage
                    /\ last.constructed = <<>>

\* C33 witness: a call in which neither probe answered ran both probes
\* twice, constructed nothing and raised.
C33_Witness ==
    /\ IsInit /\ last.outcome = "RuntimeError"
    /\ \A b \in {"docker", "local"} :
          Times(last.probes, b) = 1 /\ Times(last.again, b) = 1
    /\ last.constructed = <<>>

\* C36: an initialize_octave call that raises leaves runtime_type and
\* octave_instance as they were; at all times runtime_type is the kind of
\* the session octave_instance holds, None when it holds none.
C36_FailedInitializeKeepsSelection ==
    /\ [][(last'.op = "initialize_octave" /\ last'.outcome # "returned") =>
            UNCHANGED <<runtime_type, octave_instance>>]_vars
    /\ [](/\ runtime_type = octave_instance.kind
          /\ runtime_type # "None" <=> octave_instance # NoSession)

\* C36 witness: after a successful initialization a call whose session
\* construction raised, the manager still holding the earlier session.
C36_Witness ==
    /\ IsInit /\ last.outcome = "RuntimeError" /\ last.constructed # <<>>
    /\ runtime_type # "None" /\ octave_instance = first

\* C37: after a step of a probe, the flag get_runtime_info reports for that
\* backend is the result the probe returned.
C37_FlagsFollowLastProbe ==
    [][/\ last'.op = "check_docker_availability" =>
            RuntimeInfo'.docker_available = last'.probes[1].result
       /\ last'.op = "check_local_octave_availability" =>
            RuntimeInfo'.local_octave_available = last'.probes[1].result]_vars

----------------------------------------------------------------------------
\* DockerOctave: one constructed session, its two buffers, the script file
\* run.m and the exchange file result.mat (checked under SpecSession).

\* persistent statements a session registers, transient ones a caller puts
\* into the public commands list
MaxPersistent == 2
MaxCommands == 1

\* statements are records [stmt, arg]; arg is a sequence of text pieces
Stmt(kind, pieces) == [stmt |-> kind, arg |-> pieces]

EvalCmds == {<<"warning('off', 'all');">>}
Paths == {<<".", "/", "a">>}
TransientCmds == {<<"pkg load signal;">>}

\* str.replace('\\', '/')
RECURSIVE ReplaceBackslash(_)
ReplaceBackslash(t) ==
    IF t = <<>> THEN <<>>
    ELSE <<IF Head(t) = "\\" THEN "/" ELSE Head(t)>> \o ReplaceBackslash(Tail(t))

\* str.lstrip('./'): every leading '.' and '/' is dropped
RECURSIVE LStripDotSlash(_)
LStripDotSlash(t) ==
    IF t # <<>> /\ Head(t) \in {".", "/"} THEN LStripDotSlash(Tail(t)) ELSE t

\* genpath(path): the text genpath('<normalized>')
genpath(path) ==
    <<"genpath(", "'">> \o LStripDotSlash(ReplaceBackslash(path)) \o <<"'", ")">>

\* 'genpath(' in text
HasGenpath(t) == \E i \in 1..Len(t) : t[i] = "genpath("

\* the statement addpath registers for a str argument
AddpathStmt(t) ==
    IF HasGenpath(t)
    THEN Stmt("addpath", <<"addpath(">> \o t \o <<")", ";">>)
    ELSE Stmt("addpath", <<"addpath(", "'">>
                         \o LStripDotSlash(ReplaceBackslash(t)) \o <<"'", ")", ";">>)

\* --- marshaling (feval lines 256-300) ---

\* a Python value: its type, its text (a scalar) or its elements (a list,
\* an ndarray, whose elements are its rows or its numbers)
Val(type, text) == [type |-> type, val |-> text, items |-> <<>>]
Coll(type, items) == [type |-> type, val |-> <<>>, items |-> items]

\* argument values
ArgValues ==
    {Val("str", <<".", "/", "a">>),
     Val("bool", <<"True">>),
     Val("int", <<"2">>),
     Val("NoneType", <<"None">>),
     Val("dict", <<"{", "}">>)}

\* isinstance: bool is a subclass of int
IsInstance(a, t) == a.type = t \/ (t = "int" /\ a.type = "bool")

\* the isinstance chain of lines 260-294 has a branch for the value
Supported(a) ==
    \/ IsInstance(a, "str") \/ IsInstance(a, "bool") \/ IsInstance(a, "int")
    \/ IsInstance(a, "float") \/ IsInstance(a, "list")
    \/ IsInstance(a, "ndarray") \/ a.type = "NoneType"

\* ', '.join(parts)
RECURSIVE Join(_)
Join(parts) ==
    IF parts = <<>> THEN <<>>
    ELSE IF Len(parts) = 1 THEN parts[1]
    ELSE parts[1] \o <<",", " ">> \o Join(Tail(parts))

\* str(value); an element of a list is shown by its repr, a str in quotes
RECURSIVE PyStr(_, _)
PyStr(a, quoted) ==
    IF a.type \in {"list", "ndarray"}
    THEN <<"[">> \o Join([i \in 1..Len(a.items) |-> PyStr(a.items[i], TRUE)])
         \o <<"]">>
    ELSE IF a.type = "str" /\ quoted THEN <<"'">> \o a.val \o <<"'">>
    ELSE a.val

\* np.ravel(arg): the numbers of the rows, row after row
RECURSIVE Ravel(_)
Ravel(items) ==
    IF items = <<>> THEN <<>>
    ELSE (IF Head(items).type \in {"list", "ndarray"}
          THEN Ravel(Head(items).items) ELSE <<Head(items)>>)
         \o Ravel(Tail(items))

\* line 296 with the empty matrix written as a number
EmptyMatrixAsZero == <<"0">>
\* line 296: None is written as the empty matrix
EmptyMatrix == <<"[", "]">>

\* lines 264-265 with every leading './' dropped
RECURSIVE DropEveryDotSlash(_)
DropEveryDotSlash(n) ==
    IF Len(n) >= 2 /\ n[1] = "." /\ n[2] = "/"
    THEN DropEveryDotSlash(SubSeq(n, 3, Len(n))) ELSE n

\* lines 264-265: if the text starts with './', those two characters go
DropDotSlash(n) ==
    IF Len(n) >= 2 /\ n[1] = "." /\ n[2] = "/" THEN SubSeq(n, 3, Len(n)) ELSE n

\* the chain of lines 260-296 with the number test ahead of the bool test
BranchNumberFirst(a) ==
    IF IsInstance(a, "str") THEN "str"
    ELSE IF IsInstance(a, "int") \/ IsInstance(a, "float") THEN "number"
    ELSE IF IsInstance(a, "bool") THEN "bool"
    ELSE IF IsInstance(a, "list") THEN "list"
    ELSE IF IsInstance(a, "ndarray") THEN "ndarray"
    ELSE "None"

\* the branch of the if/elif chain of lines 260-296 that takes the value:
\* the first whose isinstance test holds
Branch(a) ==
    IF IsInstance(a, "str") THEN "str"
    ELSE IF IsInstance(a, "bool") THEN "bool"
    ELSE IF IsInstance(a, "int") \/ IsInstance(a, "float") THEN "number"
    ELSE IF IsInstance(a, "list") THEN "list"
    ELSE IF IsInstance(a, "ndarray") THEN "ndarray"
    ELSE "None"

\* the literal written for a supported argument
Literal(a) ==
    IF Branch(a) = "str"
    THEN <<"'">> \o DropDotSlash(ReplaceBackslash(a.val)) \o <<"'">>
    ELSE IF Branch(a) = "bool"
    THEN <<IF a.val = <<"True">> THEN "1" ELSE "0">>
    ELSE IF Branch(a) = "number" THEN a.val
    ELSE IF Branch(a) = "list"
    THEN IF a.items # <<>> /\ IsInstance(a.items[1], "str")
         THEN <<"{">>
              \o Join([i \in 1..Len(a.items) |->
                          <<"'">> \o PyStr(a.items[i], FALSE) \o <<"'">>])
              \o <<"}">>
         ELSE <<"[">>
              \o Join([i \in 1..Len(a.items) |-> PyStr(a.items[i], FALSE)])
              \o <<"]">>
    ELSE IF Branch(a) = "ndarray"
    THEN LET flat == Ravel(a.items) IN
         <<"[">> \o Join([i \in 1..Len(flat) |-> PyStr(flat[i], FALSE)])
         \o <<"]">>
    ELSE EmptyMatrix

\* line 257 with the variables numbered from one
ArgVarFromOne(i) == "arg" \o ToString(i + 1)
\* line 257: var = f'arg{i}'
ArgVar(i) == "arg" \o ToString(i)

Assigns(func_args) ==
    [i \in 1..Len(func_args) |->
        Stmt("assign", <<ArgVar(i - 1), "=">> \o Literal(func_args[i]) \o <<";">>)]

\* line 303: the result variables
ResultVars(nout) ==
    IF nout > 1 THEN [i \in 1..nout |-> "result" \o ToString(i - 1)]
    ELSE <<"result">>

\* line 307: the variables saved
StoreVars(nout, store_as) ==
    IF store_as # "None" THEN <<store_as>> ELSE ResultVars(nout)

\* lines 395-402 with every request answered by a tuple
ReturnTuple(nout, store_as) ==
    [vars |-> IF store_as # "None" THEN <<store_as>> ELSE ResultVars(nout),
     shape |-> "tuple"]

\* lines 395-402: the variables read from the loaded file and what is made
\* of them: mat[store_as], mat[result_vars[0]] when nout == 1, else a tuple
\* over result_vars
Return(nout, store_as) ==
    IF store_as # "None" THEN [vars |-> <<store_as>>, shape |-> "value"]
    ELSE IF nout = 1 THEN [vars |-> <<ResultVars(nout)[1]>>, shape |-> "value"]
    ELSE [vars |-> ResultVars(nout), shape |-> "tuple"]

\* line 315 with the transient commands ahead of the assignments
ScriptTransientFirst(persistent, func_args, transient, nout, store_as) ==
    persistent \o transient \o Assigns(func_args)
    \o <<Stmt("call", ResultVars(nout)
                      \o [i \in 1..Len(func_args) |-> ArgVar(i - 1)]),
         Stmt("save", StoreVars(nout, store_as))>>

\* lines 304-315: the script of one call
Script(persistent, func_args, transient, nout, store_as) ==
    persistent \o Assigns(func_args) \o transient
    \o <<Stmt("call", ResultVars(nout)
                      \o [i \in 1..Len(func_args) |-> ArgVar(i - 1)]),
         Stmt("save", StoreVars(nout, store_as))>>

Range(q) == {q[i] : i \in 1..Len(q)}

\* output_text.strip(): leading and trailing blanks dropped
RECURSIVE LStripBlank(_)
LStripBlank(t) ==
    IF t # <<>> /\ Head(t) \in {" ", "\n"} THEN LStripBlank(Tail(t)) ELSE t
RECURSIVE RStripBlank(_)
RStripBlank(t) ==
    IF t # <<>> /\ t[Len(t)] \in {" ", "\n"}
    THEN RStripBlank(SubSeq(t, 1, Len(t) - 1)) ELSE t
Strip(t) == RStripBlank(LStripBlank(t))

\* what one run of octave-cli gives: the exit code, the captured output and
\* what the script did to the exchange file
ExitCodes == {0, 1, 2}
Outputs == {<<>>, <<" ", "\n">>, <<"error: x undefined", "\n">>}
FileEffects == {"saved", "kept", "corrupt", "removed"}

\* what loadmat gives for the saved variable: a str, a float or an ndarray of
\* floats (numbers in tenths); NoValue where the model does not follow it
NoValue == [type |-> "None", text |-> <<>>, nums |-> <<>>]

NoRun == [exit_code |-> 0, output |-> <<>>, file |-> "kept", value |-> NoValue]

Runs == {r \in [exit_code : ExitCodes, output : Outputs, file : FileEffects,
                value : {NoValue}] :
            /\ r.exit_code # 0 => r.file = "kept"
            /\ r.exit_code = 0 => r.output # <<" ", "\n">>}

\* result.mat after the script has run
FileAfter(file, effect, names) ==
    CASE effect = "saved" ->
             [exists |-> TRUE, readable |-> TRUE, vars |-> names, fresh |-> TRUE]
      [] effect = "corrupt" ->
             [exists |-> TRUE, readable |-> FALSE, vars |-> {}, fresh |-> TRUE]
      [] effect = "removed" -> NoFile
      [] OTHER -> [file EXCEPT !.fresh = FALSE]

\* --- octave-cli reading a literal, loadmat reading what was saved ---

\* the numerals of the model and the number each denotes, in tenths
Numerals == {"0", "1", "2", "-1", "1.5"}
NumberOf(t) ==
    CASE t = "0" -> 0 [] t = "1" -> 10 [] t = "2" -> 20
      [] t = "-1" -> -10 [] t = "1.5" -> 15

Count(t, x) == Cardinality({i \in 1..Len(t) : t[i] = x})

OctaveError == [ok |-> FALSE, class |-> "error", text |-> <<>>, nums |-> <<>>]

\* the value octave-cli gives a variable assigned the literal: a quote inside
\* a quoted string ends the string, a name that is not a numeral is undefined,
\* brackets inside brackets concatenate into one row
Denote(lit) ==
    LET inner == SubSeq(lit, 2, Len(lit) - 1) IN
    IF lit[1] = "'"
    THEN IF Count(inner, "'") > 0 THEN OctaveError
         ELSE [ok |-> TRUE, class |-> "char", text |-> inner, nums |-> <<>>]
    ELSE IF lit[1] = "{"
    THEN IF Count(inner, "'") # 2 * (Count(inner, ",") + 1) THEN OctaveError
         ELSE [ok |-> TRUE, class |-> "cell", text |-> <<>>, nums |-> <<>>]
    ELSE IF lit[1] = "["
    THEN LET elems == SelectSeq(inner,
                                LAMBDA t : t \notin {"[", "]", ",", " "}) IN
         IF \E i \in 1..Len(elems) : elems[i] \notin Numerals THEN OctaveError
         ELSE [ok |-> TRUE, class |-> "double", text |-> <<>>,
               nums |-> [i \in 1..Len(elems) |-> NumberOf(elems[i])]]
    ELSE IF Len(lit) = 1 /\ lit[1] \in Numerals
    THEN [ok |-> TRUE, class |-> "double", text |-> <<>>,
          nums |-> <<NumberOf(lit[1])>>]
    ELSE OctaveError

\* line 384: loadmat(..., squeeze_me=True) of the saved variable: a char array
\* comes back as a str, a 1x1 double as a float, any other double as an ndarray
Loadmat(v) ==
    IF v.class = "char" THEN [type |-> "str", text |-> v.text, nums |-> <<>>]
    ELSE IF v.class = "double"
    THEN [type |-> IF Len(v.nums) = 1 THEN "float" ELSE "ndarray",
          text |-> <<>>, nums |-> v.nums]
    ELSE [type |-> "object", text |-> <<>>, nums |-> <<>>]

\* line 358 when the function called returns its first argument: the script
\* fails on a literal octave-cli cannot evaluate, and saves arg0 otherwise
IdentityRun(func_args) ==
    IF \E i \in 1..Len(func_args) : ~Supported(func_args[i]) THEN NoRun
    ELSE LET vals == [i \in 1..Len(func_args) |-> Denote(Literal(func_args[i]))]
         IN IF \E i \in 1..Len(vals) : ~vals[i].ok
            THEN [exit_code |-> 1, output |-> <<"error: x undefined", "\n">>,
                  file |-> "kept", value |-> NoValue]
            ELSE [exit_code |-> 0, output |-> <<>>, file |-> "saved",
                  value |-> Loadmat(vals[1])]

----------------------------------------------------------------------------
\* DockerOctave operations.

sessFrame == <<mgrVars, concVars, callVars>>

\* eval(cmd) writing the command to the script file at once
eval_writing_script(cmd) ==
    /\ Len(persistent_commands) < MaxPersistent
    /\ persistent_commands' = Append(persistent_commands, Stmt("eval", cmd))
    /\ script_file' = <<Stmt("eval", cmd)>>
    /\ flast' = Did("eval")
    /\ UNCHANGED <<session_verbose, commands, container,
                   result_file, engVars, sessFrame>>

\* eval(cmd): lines 176-178
eval(cmd) ==
    /\ Len(persistent_commands) < MaxPersistent
    /\ persistent_commands' = Append(persistent_commands, Stmt("eval", cmd))
    /\ flast' = Did("eval")
    /\ UNCHANGED <<session_verbose, commands, container, script_file,
                   result_file, engVars, sessFrame>>

\* addpath(path_or_genpath_result) with a str argument: lines 191-200
addpath(path) ==
    /\ Len(persistent_commands) < MaxPersistent
    /\ persistent_commands' = Append(persistent_commands, AddpathStmt(path))
    /\ flast' = Did("addpath")
    /\ UNCHANGED <<session_verbose, commands, container, script_file,
                   result_file, engVars, sessFrame>>

\* a caller appends to the session's public commands list (line 55), the
\* only way a transient command gets into the script (line 315)
append_command(cmd) ==
    /\ Len(commands) < MaxCommands
    /\ commands' = Append(commands, Stmt("transient", cmd))
    /\ flast' = Did("commands.append")
    /\ UNCHANGED <<session_verbose, persistent_commands, container, script_file,
                   result_file, engVars, sessFrame>>

\* exit() with the persistent list cleared as well
exit_clearing_persistent ==
    /\ commands' = <<>>
    /\ persistent_commands' = <<>>
    /\ flast' = Did("exit")
    /\ UNCHANGED <<session_verbose, container, script_file,
                   result_file, engVars, sessFrame>>

\* exit(): lines 404-407
exit ==
    /\ commands' = <<>>
    /\ flast' = Did("exit")
    /\ UNCHANGED <<session_verbose, persistent_commands, container, script_file,
                   result_file, engVars, sessFrame>>

\* __exit__: lines 434-437, calls exit()
__exit__ ==
    /\ commands' = <<>>
    /\ flast' = Did("__exit__")
    /\ UNCHANGED <<session_verbose, persistent_commands, container, script_file,
                   result_file, engVars, sessFrame>>

\* __del__ stopping the container it holds
del_stopping_container ==
    /\ commands' = <<>>
    /\ containers' = ContainerStop(containers, container)
    /\ flast' = Did("__del__")
    /\ UNCHANGED <<session_verbose, persistent_commands, container, script_file,
                   result_file, image_present, next_container, sessFrame>>

\* __del__: lines 409-417; the session holds a container, so hasattr is true
__del__ ==
    /\ commands' = <<>>
    /\ flast' = Did("__del__")
    /\ UNCHANGED <<session_verbose, persistent_commands, container, script_file,
                   result_file, engVars, sessFrame>>

\* stop_container(): lines 419-428; how says which engine call fails, if any
\* (stop fails at once when the container is already gone)
stop_container(how) ==
    /\ containers' =
           IF how = "stop_fails" \/ ~Exists(containers, container)
           THEN containers
           ELSE IF how = "remove_fails"
           THEN ContainerStop(containers, container)
           ELSE ContainerRemove(ContainerStop(containers, container), container)
    /\ flast' = Did("stop_container")
    /\ UNCHANGED <<session_verbose, commands, persistent_commands, container,
                   script_file, result_file, image_present, next_container,
                   sessFrame>>

Running(cs, id) == Exists(cs, id) /\ StatusOf(cs, id) = "running"

Min(S) == CHOOSE x \in S : \A y \in S : x <= y

\* the script file when the marshaling loop raises: open(script_path, 'w')
\* at line 327 comes after the loop of lines 256-300, so the file is as it was
ScriptTruncatedOnTypeError(file) == <<>>
ScriptOnTypeError(file) == file

\* the inputs of one feval call that the call does not consult are held at
\* one value: the run when octave-cli is not executed, the verbose argument
\* when it does not decide what is printed
FevalConsulted(func_args, vb, run) ==
    LET executes == /\ \A i \in 1..Len(func_args) : Supported(func_args[i])
                    /\ Running(containers, container)
    IN  /\ ~executes => run = NoRun
        /\ (~executes \/ session_verbose \/ run.exit_code # 0
            \/ Strip(run.output) = <<>>) => ~vb

\* feval(func_path, *func_args, nout, store_as, verbose): lines 231-402;
\* run is what the octave-cli exec gives if the call gets that far
feval(func_args, nout, store_as, vb, run) ==
    LET show_output == vb \/ session_verbose
        bad == {i \in 1..Len(func_args) : ~Supported(func_args[i])}
        code == Script(persistent_commands, func_args, commands, nout, store_as)
        names == StoreVars(nout, store_as)
        read == Return(nout, store_as)
        file == FileAfter(result_file, run.file, Range(names))
        shown == IF (show_output \/ run.exit_code # 0) /\ Strip(run.output) # <<>>
                 THEN run.output ELSE <<>>
        call == [Idle EXCEPT !.op = "feval", !.args = func_args,
                             !.nout = nout, !.store_as = store_as,
                             !.verbose = vb, !.outcome = "raised"]
        ran == [call EXCEPT !.wrote = TRUE,
                            !.execs = 1, !.exit_code = run.exit_code,
                            !.output = run.output, !.printed = shown]
    IN
    /\ FevalConsulted(func_args, vb, run)
    /\ UNCHANGED <<session_verbose, persistent_commands, container, engVars,
                   sessFrame>>
    /\ IF bad # {}
       THEN \* line 300: raised while marshaling, nothing written or run
            /\ flast' = [call EXCEPT !.error = Unsupported(func_args[Min(bad)])]
            /\ script_file' = ScriptOnTypeError(script_file)
            /\ UNCHANGED <<commands, result_file>>
       ELSE IF ~Running(containers, container)
       THEN \* line 342: exec_run raises, after the script was written
            /\ script_file' = code
            /\ flast' = [call EXCEPT !.wrote = TRUE, !.error = APIError]
            /\ UNCHANGED <<commands, result_file>>
       ELSE IF run.exit_code # 0
       THEN \* lines 369-373
            /\ script_file' = code
            /\ result_file' = file
            /\ flast' = [ran EXCEPT !.error =
                                       ExecutionFailed(run.exit_code, run.output)]
            /\ UNCHANGED commands
       ELSE IF ~file.exists \/ ~file.readable
       THEN \* lines 388-390
            /\ script_file' = code
            /\ result_file' = file
            /\ flast' = [ran EXCEPT !.error = LoadFailed(LoadmatError(file))]
            /\ UNCHANGED commands
       ELSE \* lines 392-402
            /\ script_file' = code
            /\ result_file' = file
            /\ commands' = <<>>
            /\ flast' = IF Range(read.vars) \subseteq file.vars
                        THEN [ran EXCEPT !.outcome = "returned", !.loaded = TRUE,
                                         !.shape = read.shape,
                                         !.ret = [i \in 1..Len(read.vars) |->
                                                    [var |-> read.vars[i],
                                                     fresh |-> file.fresh,
                                                     value |-> run.value]]]
                        ELSE [ran EXCEPT !.loaded = TRUE, !.error = KeyError]

\* argument lists and call shapes of the model
ArgLists == {<<Val("str", <<".", "/", "a">>)>>,
             <<Val("dict", <<"{", "}">>)>>}
Nouts == {1}
StoreNames == {"None"}

\* the state right after DockerOctave.__init__ returned: the named container
\* runs, both buffers are empty, no script and no result file yet
SessInit ==
    /\ session_verbose \in BOOLEAN
    /\ commands = <<>>
    /\ persistent_commands = <<>>
    /\ container = 1
    /\ script_file = <<>>
    /\ result_file = NoFile
    /\ flast = Idle
    /\ image_present = TRUE
    /\ containers = {Container(1, container_name, "running")}
    /\ next_container = 2

MgrIdle == MgrInit /\ environ = Unset /\ verbose = FALSE

InitSession == SessInit /\ MgrIdle /\ ConcIdle /\ CallIdle

NextSession ==
    \/ \E cmd \in EvalCmds : eval(cmd)
    \/ \E path \in Paths : addpath(path)
    \/ \E cmd \in TransientCmds : append_command(cmd)
    \/ \E func_args \in ArgLists, nout \in Nouts, store_as \in StoreNames,
          vb \in BOOLEAN, run \in Runs :
          feval(func_args, nout, store_as, vb, run)
    \/ exit
    \/ __exit__
    \/ __del__
    \/ \E how \in {"ok", "stop_fails", "remove_fails"} : stop_container(how)

SpecSession == InitSession /\ [][NextSession]_vars

\* --- feval of a function that returns its first argument (SpecMarshal) ---

\* arguments of one call
MaxArgs == 2

None_ == Val("NoneType", <<"None">>)

MarshalValues ==
    {Val("str", <<"a">>), Val("str", <<".", "/", "a">>),
     Val("str", <<"a", "\\", "b">>), Val("str", <<"it", "'", "s">>),
     Val("str", <<".", "/", ".", "/", "a">>), Val("str", <<".", "\\", "a">>),
     Val("bool", <<"True">>), Val("bool", <<"False">>),
     Val("int", <<"2">>), Val("int", <<"-1">>), Val("float", <<"1.5">>),
     None_,
     Coll("list", <<>>),
     Coll("list", <<Val("int", <<"1">>), Val("int", <<"2">>)>>),
     Coll("list", <<Val("float", <<"1.5">>)>>),
     Coll("list", <<Val("str", <<"a">>), Val("str", <<"b">>)>>),
     Coll("list", <<Val("str", <<"a">>), Val("int", <<"2">>)>>),
     Coll("list", <<Val("int", <<"2">>), Val("str", <<"a">>)>>),
     Coll("list", <<None_>>),
     Coll("list", <<Val("bool", <<"True">>)>>),
     Coll("list", <<Coll("list", <<Val("int", <<"1">>), Val("int", <<"2">>)>>)>>),
     Coll("ndarray", <<Val("float", <<"1.5">>), Val("float", <<"2">>)>>),
     Coll("ndarray", <<Coll("ndarray", <<Val("int", <<"1">>), Val("int", <<"2">>)>>),
                       Coll("ndarray", <<Val("int", <<"-1">>), Val("int", <<"0">>)>>)>>),
     Val("dict", <<"{", "}">>),
     Coll("tuple", <<Val("int", <<"1">>)>>)}

\* one value at one position, None at the others
MarshalArgLists ==
    {[i \in 1..n |-> IF i = p THEN a ELSE None_] :
        <<a, n, p>> \in {t \in MarshalValues \X (1..MaxArgs) \X (1..MaxArgs) :
                            t[3] <= t[2]}}

InitMarshal == InitSession

NextMarshal ==
    \E func_args \in MarshalArgLists :
        feval(func_args, 1, "None", FALSE, IdentityRun(func_args))

SpecMarshal == InitMarshal /\ [][NextMarshal]_vars

\* --- the script of a call with several arguments and results (SpecScript) ---

ScriptArgLists ==
    {<<>>,
     <<Val("int", <<"2">>), Val("str", <<"a">>)>>,
     <<Val("str", <<"a">>), Val("int", <<"2">>)>>}
ScriptNouts == {0, 1, 2}
ScriptStoreNames == {"None", "x"}

\* octave-cli runs the script through and saves, or stops at an error
ScriptRuns ==
    {[exit_code |-> 0, output |-> <<>>, file |-> "saved", value |-> NoValue],
     [exit_code |-> 1, output |-> <<"error: x undefined", "\n">>,
      file |-> "kept", value |-> NoValue]}

InitScript == InitSession /\ session_verbose = FALSE

NextScript ==
    \/ \E cmd \in EvalCmds : eval(cmd)
    \/ \E path \in Paths : addpath(path)
    \/ \E cmd \in TransientCmds : append_command(cmd)
    \/ \E func_args \in ScriptArgLists, nout \in ScriptNouts,
          store_as \in ScriptStoreNames, run \in ScriptRuns :
          feval(func_args, nout, store_as, FALSE, run)

SpecScript == InitScript /\ [][NextScript]_vars

\* --- sessions constructed one after another (SpecConstruct) ---

\* containers the engine is asked to create
MaxContainers == 3

\* the container_name argument: the default or a name of the caller's
ContainerNames == {container_name, "octave_other"}

\* DockerOctave(container_name=name, verbose=False): lines 33-115, run to
\* completion on the engine as it is; a construction that raises leaves no
\* session behind
construct(name, fault) ==
    LET d == DockerOctaveInit(image_present, containers, next_container,
                              name, fault)
    IN  /\ next_container <= MaxContainers
        /\ image_present' = d.image
        /\ containers' = d.containers
        /\ next_container' = d.next
        /\ container' = IF d.ok THEN d.container ELSE NotFound
        /\ session_verbose' = FALSE
        /\ commands' = <<>>
        /\ persistent_commands' = <<>>
        /\ flast' = [Idle EXCEPT !.op = "__init__", !.args = <<name>>,
                                 !.outcome = IF d.ok THEN "returned" ELSE "raised",
                                 !.error = d.error, !.engine = d.calls,
                                 !.output = d.log, !.printed = d.printed]
        /\ UNCHANGED <<script_file, result_file, sessFrame>>

\* check_running_processes(): lines 208-217; exec is what
\* container.exec_run("pgrep -a octave-cli") does: it raises, always so when
\* the container is not running, or gives an exit code and the output lines
check_running_processes(exec) ==
    /\ ~Running(containers, container) => exec.raised
    /\ flast' = [Did("check_running_processes") EXCEPT
                    !.engine = <<IF exec.raised THEN "exec_run raises"
                                 ELSE "exec_run">>,
                    !.execs = 1,
                    !.exit_code = exec.exit_code,
                    !.output = exec.lines,
                    !.ret = IF ~exec.raised /\ exec.exit_code = 0
                            THEN SelectSeq(exec.lines, LAMBDA l : l # "")
                            ELSE <<>>]
    /\ UNCHANGED <<session_verbose, commands, persistent_commands, container,
                   script_file, result_file, engVars, sessFrame>>

\* kill_running_processes() letting the failure of the exec through
kill_running_processes_raising(exec) ==
    /\ ~Running(containers, container) => exec.raised
    /\ flast' = [Idle EXCEPT
                    !.op = "kill_running_processes",
                    !.outcome = IF exec.raised THEN "raised" ELSE "returned",
                    !.error = IF exec.raised THEN APIError ELSE NoError,
                    !.engine = <<IF exec.raised THEN "exec_run raises"
                                 ELSE "exec_run">>,
                    !.execs = 1,
                    !.exit_code = exec.exit_code,
                    !.ret = ~exec.raised]
    /\ UNCHANGED <<session_verbose, commands, persistent_commands, container,
                   script_file, result_file, engVars, sessFrame>>

\* kill_running_processes(): lines 219-229; exec is what
\* container.exec_run("pkill -9 octave-cli") does; the exit code is not read
kill_running_processes(exec) ==
    /\ ~Running(containers, container) => exec.raised
    /\ flast' = [Did("kill_running_processes") EXCEPT
                    !.engine = <<IF exec.raised THEN "exec_run raises"
                                 ELSE "exec_run">>,
                    !.execs = 1,
                    !.exit_code = exec.exit_code,
                    !.printed = IF ~session_verbose THEN <<>>
                                ELSE IF exec.raised
                                THEN <<"Failed to kill processes">>
                                ELSE <<"Killed existing Octave processes">>,
                    !.ret = ~exec.raised]
    /\ UNCHANGED <<session_verbose, commands, persistent_commands, container,
                   script_file, result_file, engVars, sessFrame>>

InitConstruct == EngInit /\ SessIdle /\ MgrIdle /\ ConcIdle /\ CallIdle

NextConstruct ==
    \/ \E name \in ContainerNames, fault \in Faults : construct(name, fault)
    \/ \E how \in {"ok", "stop_fails", "remove_fails"} :
          container # NotFound /\ stop_container(how)
    \/ \E exec \in {[raised |-> TRUE, exit_code |-> -1, lines |-> <<>>],
                     [raised |-> FALSE, exit_code |-> 1, lines |-> <<>>],
                     [raised |-> FALSE, exit_code |-> 0,
                      lines |-> <<"12 octave-cli", "", "15 octave-cli">>]} :
          /\ container # NotFound
          /\ \/ check_running_processes(exec)
             \/ kill_running_processes(exec)

SpecConstruct == InitConstruct /\ [][NextConstruct]_vars

----------------------------------------------------------------------------
\* A backend running simulations on the session it holds (SpecBackend).

\* run_simulation calls on one session
MaxRuns == 2

\* lines 60-85 giving up at the first endpoint that fails
TryEndpointsStoppingAtFailure(package, eps) ==
    IF ~package THEN [result |-> FALSE, tried |-> <<>>]
    ELSE [result |-> eps[1] = "answers", tried |-> <<1>>]

\* check_docker_availability, octave_manager.py 55-96: package says whether
\* 'import docker' succeeds; eps is what each endpoint does, in the order of
\* the code: 1 docker.from_env(), 2 ~/.orbstack/run/docker.sock,
\* 3 /var/run/docker.sock, 4 the Docker Desktop socket. A socket that is
\* "absent" fails os.path.exists and is not pinged; tried lists the
\* endpoints pinged, in order
TryEndpoints(package, eps) ==
    IF ~package THEN [result |-> FALSE, tried |-> <<>>]
    ELSE IF eps[1] = "answers" THEN [result |-> TRUE, tried |-> <<1>>]
    ELSE LET t2 == IF eps[2] = "absent" THEN <<1>> ELSE <<1, 2>> IN
         IF eps[2] = "answers" THEN [result |-> TRUE, tried |-> t2]
         ELSE LET t3 == IF eps[3] = "absent" THEN t2 ELSE Append(t2, 3) IN
              IF eps[3] = "answers" THEN [result |-> TRUE, tried |-> t3]
              ELSE LET t4 == IF eps[4] = "absent" THEN t3 ELSE Append(t3, 4) IN
                   [result |-> eps[4] = "answers", tried |-> t4]

\* run_simulation initializing on every call
NeedsInitAlways(held) == TRUE

\* lcmodel_backend.py 186, slaser_backend.py 225: 'if self.octave is None'
NeedsInit(held) == held = NoSession

\* lcmodel_backend.py 179-182: what setup_octave_paths registers, in order
SetupStatements ==
    <<Stmt("eval", <<"warning('off', 'all');">>),
      AddpathStmt(<<".", "/", "externals/fidA/inputOutput/">>),
      AddpathStmt(<<".", "/", "externals/fidA/processingTools/">>),
      AddpathStmt(<<".", "/", "externals/fidA/simulationTools/">>)>>

\* setup_octave_paths leaving out what the session has registered before
setup_octave_paths_once(persistent) ==
    IF \E i \in 1..Len(persistent) : persistent[i] = SetupStatements[1]
    THEN persistent
    ELSE persistent \o SetupStatements

\* setup_octave_paths(): lcmodel_backend.py 174-182, one eval and three
\* addpath calls on the session, each appending to persistent_commands
setup_octave_paths(persistent) == persistent \o SetupStatements

\* run_simulation(params): lcmodel_backend.py 184-237 with base.py 91-125 and
\* the manager's initialize_octave(prefer_docker=True) on a machine without a
\* local Octave. package and eps are what the Docker probe meets, fault what
\* the engine does to the construction, procs whether pgrep finds a process
\* in the new container, metabs the number of metabolites (one feval each)
\* and run what octave-cli does with the script
run_simulation(package, eps, fault, procs, metabs, run) ==
    LET init == NeedsInit(octave)
        t == TryEndpoints(package, eps)
        d == DockerOctaveInit(image_present, containers, next_container,
                              container_name, fault)
        ok == t.result /\ d.ok
        new == [id |-> calls + 1, kind |-> "docker", verbose |-> FALSE,
                container |-> d.container]
        held == IF ~init THEN octave ELSE IF ok THEN new ELSE NoSession
        cs == IF init /\ t.result THEN d.containers ELSE containers
        cont == IF ~init THEN container ELSE IF ok THEN d.container ELSE NotFound
        \* a DockerOctave just constructed has both lists empty (lines 55-56)
        registered == setup_octave_paths(IF init THEN <<>>
                                         ELSE persistent_commands)
        transient == IF init THEN <<>> ELSE commands
        boot == IF ~init \/ ~t.result THEN <<>>
                ELSE d.calls
                     \o (IF ~ok THEN <<>>
                         ELSE <<"exec_run pgrep">>
                              \o IF procs THEN <<"exec_run pkill">> ELSE <<>>)
        func_args == <<Val("int", <<"2">>), Val("str", <<"a">>)>>
        code == Script(registered, func_args, transient, 1, "None")
        file == FileAfter(result_file, run.file, {"result"})
        call == [Idle EXCEPT !.op = "run_simulation", !.outcome = "raised",
                             !.engine = boot]
        ran == [call EXCEPT !.args = func_args, !.wrote = TRUE, !.execs = 1,
                            !.exit_code = run.exit_code, !.output = run.output]
        executes == held # NoSession /\ metabs > 0 /\ Running(cs, cont)
    IN
    \* inputs the call does not consult are held at one value
    /\ ~init => package /\ eps = [i \in 1..4 |-> "answers"]
    /\ (~init \/ ~t.result) => fault = "none"
    /\ (~init \/ ~ok) => ~procs
    /\ held = NoSession => metabs = 0
    /\ ~executes => run = NoRun
    /\ init => calls < MaxCalls /\ next_container <= MaxContainers
    /\ ~init => Len(persistent_commands) < MaxRuns * Len(SetupStatements)
    /\ calls' = IF init THEN calls + 1 ELSE calls
    /\ first' = IF init /\ ok /\ first = NoSession THEN new ELSE first
    /\ last' = IF ~init THEN NoOp
               ELSE [NoOp EXCEPT
                       !.op = "initialize_octave",
                       !.prefer_docker = TRUE,
                       !.env = [docker |-> t.result, local |-> FALSE],
                       !.endpoints = [package |-> package, states |-> eps,
                                      tried |-> t.tried],
                       !.probes = ProbesRun(TryOrder(TRUE), t.result, FALSE),
                       !.again = IF t.result THEN <<>>
                                 ELSE <<[backend |-> "docker", result |-> FALSE],
                                        [backend |-> "local", result |-> FALSE]>>,
                       !.constructed = IF t.result THEN <<"docker">> ELSE <<>>,
                       !.outcome = IF ok THEN "returned" ELSE "RuntimeError",
                       !.error = IF ok THEN "none"
                                 ELSE IF t.result
                                 THEN "Failed to initialize Docker Octave"
                                 ELSE "Octave Runtime Not Available",
                       !.ret = held,
                       !.msg = IF t.result THEN NoMessage
                               ELSE get_installation_instructions(FALSE, FALSE)]
    /\ image_present' = IF init /\ t.result THEN d.image ELSE image_present
    /\ containers' = cs
    /\ next_container' = IF init /\ t.result THEN d.next ELSE next_container
    /\ octave' = held
    /\ container' = cont
    /\ UNCHANGED <<session_verbose, runtime_type, octave_instance,
                   docker_available, local_octave_available, verbose, environ,
                   ctor, concVars, invocation, shared>>
    /\ IF held = NoSession
       THEN \* base.py 124: the RuntimeError of the manager, wrapped
            /\ flast' = [call EXCEPT !.error =
                            [type |-> "RuntimeError",
                             msg |-> "Failed to initialize Octave for backend",
                             exit_code |-> -1, output |-> <<>>]]
            /\ UNCHANGED <<commands, persistent_commands, script_file,
                           result_file>>
       ELSE /\ persistent_commands' = registered
            /\ IF metabs = 0
               THEN /\ flast' = [call EXCEPT !.outcome = "returned"]
                    /\ commands' = transient
                    /\ UNCHANGED <<script_file, result_file>>
               ELSE IF ~Running(cs, cont)
               THEN /\ script_file' = code
                    /\ flast' = [call EXCEPT !.args = func_args,
                                             !.wrote = TRUE, !.error = APIError]
                    /\ commands' = transient
                    /\ UNCHANGED result_file
               ELSE /\ script_file' = code
                    /\ result_file' = file
                    /\ IF run.exit_code # 0
                       THEN /\ flast' = [ran EXCEPT !.error =
                                            ExecutionFailed(run.exit_code,
                                                            run.output)]
                            /\ commands' = transient
                       ELSE IF ~file.exists \/ ~file.readable
                       THEN /\ flast' = [ran EXCEPT !.error =
                                            LoadFailed(LoadmatError(file))]
                            /\ commands' = transient
                       ELSE /\ commands' = <<>>
                            /\ flast' = [ran EXCEPT
                                           !.outcome = "returned",
                                           !.loaded = TRUE, !.shape = "value",
                                           !.ret = <<[var |-> "result",
                                                      fresh |-> file.fresh,
                                                      value |-> run.value]>>]

\* every state of the four endpoints is met by an initialization on a
\* faultless engine; the engine's faults and what octave-cli does are met
\* with every endpoint answering
NextBackend ==
    IF ~NeedsInit(octave)
    THEN \E metabs \in 0..1,
            run \in IF Running(containers, container) THEN ScriptRuns
                    ELSE {NoRun} :
            run_simulation(TRUE, [i \in 1..4 |-> "answers"], "none", FALSE,
                           metabs, IF metabs = 0 THEN NoRun ELSE run)
    ELSE \E package \in BOOLEAN,
            eps \in {e \in [1..4 -> {"answers", "fails", "absent"}] :
                        e[1] # "absent"} :
            IF ~package \/ eps # [i \in 1..4 |-> "answers"]
            THEN run_simulation(package, eps, "none", FALSE, 0, NoRun)
            ELSE \E fault \in Faults, procs \in BOOLEAN, metabs \in 0..1,
                    run \in ScriptRuns \cup {NoRun} :
                    run_simulation(package, eps, fault, procs, metabs, run)

SpecBackend == InitConstruct /\ [][NextBackend]_vars

----------------------------------------------------------------------------
\* Claims about one DockerOctave session (checked under SpecSession).

IsFeval == flast.op = "feval"
Executed == IsFeval /\ flast.execs = 1

\* C6: after every feval, returned or raised, the transient command buffer
\* is empty.
C6_TransientEmptyAfterFeval ==
    IsFeval => commands = <<>>

IsPrefix(p, q) == Len(p) <= Len(q) /\ SubSeq(q, 1, Len(p)) = p

\* C7: the persistent command list only grows at its end: no operation of
\* the session (eval, addpath, feval returned or raised, exit, __exit__,
\* __del__, stop_container) drops or reorders a registered statement, and a
\* script that feval generates starts with all of them in registration order.
C7_PersistentAppendOnly ==
    [][/\ IsPrefix(persistent_commands, persistent_commands')
       /\ (flast'.op = "feval" /\ flast'.wrote) =>
              IsPrefix(persistent_commands, script_file')]_vars

\* C7 witness: two statements registered, a feval that raised after
\* executing, and its script starting with both statements.
C7_Witness ==
    /\ Len(persistent_commands) >= 2
    /\ Executed /\ flast.outcome = "raised"
    /\ IsPrefix(persistent_commands, script_file)
    /\ persistent_commands[1].stmt # persistent_commands[2].stmt

\* C9: the engine's containers change only in a step of stop_container:
\* feval (returned or raised), eval, addpath, exit, __exit__ and __del__
\* leave the container as it was.
C9_ContainerStoppedOnlyExplicitly ==
    [][containers' # containers => flast'.op = "stop_container"]_vars

\* C9 witness: after a feval wrote and ran a script and the session was
\* finalized, the container is still running.
C9_Witness ==
    /\ flast.op = "__del__"
    /\ script_file # <<>>
    /\ Running(containers, container)

\* C39: a value that a successful feval returns was saved to result.mat by
\* the script of that same call: feval never returns what an earlier call
\* left in the file.
C39_ReturnedValueIsFresh ==
    (IsFeval /\ flast.outcome = "returned") =>
        \A i \in 1..Len(flast.ret) : flast.ret[i].fresh

\* C38: a feval that raises TypeError for an unsupported argument has no
\* external effect: the script file is not written, no exec runs in the
\* container, no engine call is made, and the script file, the result file,
\* the persistent command list and the containers are as before the call.
C38_MarshalErrorHasNoEffect ==
    [][(flast'.op = "feval" /\ flast'.error.type = "TypeError") =>
          /\ UNCHANGED <<script_file, result_file, persistent_commands,
                         containers, image_present>>
          /\ ~flast'.wrote
          /\ flast'.execs = 0
          /\ flast'.engine = <<>>
          /\ ~flast'.loaded]_vars

\* C38 witness: a feval raised TypeError while a script and a result file of
\* an earlier call and a registered statement are in place.
C38_Witness ==
    /\ IsFeval /\ flast.error.type = "TypeError"
    /\ script_file # <<>>
    /\ result_file.exists
    /\ persistent_commands # <<>>

\* C10: when the script exits with a non-zero code and has printed something,
\* feval raises an error that carries the exit code and the captured output,
\* loads nothing, returns nothing and runs the script once.
C10_ErrorCarriesCodeAndOutput ==
    (Executed /\ flast.exit_code # 0 /\ Strip(flast.output) # <<>>) =>
        /\ flast.outcome = "raised"
        /\ flast.error.exit_code = flast.exit_code
        /\ flast.error.output = flast.output
        /\ ~flast.loaded
        /\ flast.ret = <<>>

\* C11: after a zero exit, a feval that cannot load result.mat raises an
\* error whose text tells a missing file from a present but unreadable one:
\* the text is that of a missing file exactly when the file is missing.
C11_DecodeCausesDistinguished ==
    (Executed /\ flast.exit_code = 0 /\ flast.outcome = "raised"
     /\ ~flast.loaded) =>
        /\ flast.error.type = "RuntimeError"
        /\ ~result_file.exists <=>
               flast.error.msg = "Failed to load Octave results: "
                                 \o "[Errno 2] No such file or directory: 'result.mat'"
        /\ (result_file.exists /\ ~result_file.readable) <=>
               flast.error.msg = "Failed to load Octave results: "
                                 \o "Unknown mat file type"

\* C11 witness: a zero exit that left an unreadable result.mat behind, and
\* the load error raised for it.
C11_Witness ==
    /\ Executed /\ flast.exit_code = 0 /\ flast.outcome = "raised"
    /\ result_file.exists /\ ~result_file.readable
    /\ flast.error.msg = "Failed to load Octave results: Unknown mat file type"

\* C18: the verbose argument of feval decides alone whether the output of a
\* run that exits with zero is shown: shown when it is true, suppressed when
\* it is false, whatever the session's flag; the session's flag is unchanged.
C18_PerCallVerboseOverrides ==
    (Executed /\ flast.exit_code = 0 /\ Strip(flast.output) # <<>>) =>
        (flast.printed # <<>> <=> flast.verbose)

\* C27: a step of eval or addpath appends one statement to the persistent
\* command list and changes nothing else: the script file, the exchange
\* file, the transient commands and the engine's containers stay as they
\* were and nothing is executed; the script of every later feval that is
\* written starts with the persistent list, the appended statement included.
C27_EvalAddpathOnlyRegister ==
    /\ [][flast'.op \in {"eval", "addpath"} =>
            /\ script_file' = script_file
            /\ result_file' = result_file
            /\ commands' = commands
            /\ containers' = containers
            /\ container' = container
            /\ flast'.execs = 0 /\ ~flast'.wrote
            /\ Len(persistent_commands') = Len(persistent_commands) + 1
            /\ IsPrefix(persistent_commands, persistent_commands')
            /\ persistent_commands'[Len(persistent_commands')].stmt = flast'.op]_vars
    /\ [][(flast'.op = "feval" /\ flast'.wrote) =>
            IsPrefix(persistent_commands, script_file')]_vars

\* C27 witness: an eval and an addpath were registered and the feval after
\* them executed a script that starts with both statements.
C27_Witness ==
    /\ Executed
    /\ Len(persistent_commands) = 2
    /\ {persistent_commands[1].stmt, persistent_commands[2].stmt}
           = {"eval", "addpath"}
    /\ IsPrefix(persistent_commands, script_file)

----------------------------------------------------------------------------
\* Claims about the script of a call (checked under SpecScript).

\* C23: the script a feval writes is, in this order, the persistent commands,
\* one assignment per argument in argument order, the transient commands, one
\* call statement and one save statement; the script file holds this script
\* and nothing of what it held before.
C23_ScriptIsConcatenation ==
    [][(flast'.op = "feval" /\ flast'.wrote) =>
        LET n == Len(persistent_commands)
            k == Len(flast'.args)
            m == Len(commands)
            s == script_file'
        IN  /\ Len(s) = n + k + m + 2
            /\ SubSeq(s, 1, n) = persistent_commands
            /\ SubSeq(s, n + 1, n + k) = Assigns(flast'.args)
            /\ SubSeq(s, n + k + 1, n + k + m) = commands
            /\ s[n + k + m + 1].stmt = "call"
            /\ s[n + k + m + 2].stmt = "save"
            /\ \A i \in 1..(n + k + m) : s[i].stmt \notin {"call", "save"}]_vars

\* C23 witness: a feval with arguments wrote its script over the script of an
\* earlier call while persistent and transient commands were registered (its
\* run failed, so the transient commands are still there to compare).
C23_Witness ==
    /\ IsFeval /\ flast.wrote /\ flast.outcome = "raised"
    /\ persistent_commands # <<>> /\ commands # <<>> /\ flast.args # <<>>
    /\ Len(script_file)
          = Len(persistent_commands) + Len(flast.args) + Len(commands) + 2
    /\ result_file.exists

\* C35: the shape of what a successful feval returns follows the request:
\* with store_as it is the one value saved under that name; otherwise with
\* nout = 1 it is the one value of 'result', and with nout = n > 1 it is a
\* tuple of n values read from result0..result<n-1> in that order; and the
\* variables named in the script's save statement are the variables read.
C35_ReturnShape ==
    (IsFeval /\ flast.outcome = "returned") =>
        LET read == [i \in 1..Len(flast.ret) |-> flast.ret[i].var]
            saved == script_file[Len(script_file)]
        IN  /\ saved.stmt = "save" /\ saved.arg = read
            /\ flast.store_as # "None" =>
                  flast.shape = "value" /\ read = <<flast.store_as>>
            /\ (flast.store_as = "None" /\ flast.nout = 1) =>
                  flast.shape = "value" /\ read = <<"result">>
            /\ (flast.store_as = "None" /\ flast.nout > 1) =>
                  /\ flast.shape = "tuple" /\ Len(read) = flast.nout
                  /\ \A i \in 1..flast.nout :
                        read[i] = "result" \o ToString(i - 1)

\* C35 witness: a call with nout = 2 and no store_as returned a tuple of two.
C35_Witness ==
    /\ IsFeval /\ flast.outcome = "returned"
    /\ flast.store_as = "None" /\ flast.nout = 2
    /\ flast.shape = "tuple" /\ Len(flast.ret) = 2

\* C24: in the script of a feval, the i-th argument (from 0) is assigned to
\* arg<i>; the call statement names the result variables and then arg0 ..
\* arg<n-1> in argument order, all names distinct; the result variables are
\* result0 .. result<nout-1> when nout > 1 and the single result otherwise.
C24_VariableNames ==
    (IsFeval /\ flast.wrote) =>
        LET n == Len(persistent_commands)
            k == Len(flast.args)
            r == IF flast.nout > 1 THEN flast.nout ELSE 1
            call == script_file[Len(script_file) - 1].arg
        IN  /\ \A i \in 0..(k - 1) :
                   script_file[n + i + 1].arg[1] = "arg" \o ToString(i)
            /\ Len(call) = r + k
            /\ \A i \in 0..(k - 1) : call[r + i + 1] = "arg" \o ToString(i)
            /\ flast.nout > 1 =>
                   \A j \in 0..(r - 1) : call[j + 1] = "result" \o ToString(j)
            /\ flast.nout <= 1 => call[1] = "result"
            /\ Cardinality(Range(call)) = Len(call)

\* C24 witness: a call with two arguments and two results was written.
C24_Witness ==
    /\ IsFeval /\ flast.wrote /\ flast.nout = 2 /\ Len(flast.args) = 2
    /\ script_file[Len(script_file) - 1].arg
          = <<"result0", "result1", "arg0", "arg1">>

----------------------------------------------------------------------------
\* Claims about marshaling (checked under SpecMarshal).

IsNumber(a) == a.type \in {"int", "float"}
All(items, P(_)) == \A i \in 1..Len(items) : P(items[i])
IsText(a) == a.type = "str"
\* an element of a numeric list or array: a number, or a bool (an int)
IsNumeric(a) == IsNumber(a) \/ a.type = "bool"

\* the categories of argument values a value belongs to
Categories(a) ==
    {c \in {"Number", "Text", "Boolean", "Absent", "NumericList", "TextList",
            "NumericArray"} :
        CASE c = "Number" -> IsNumber(a)
          [] c = "Text" -> IsText(a)
          [] c = "Boolean" -> a.type = "bool"
          [] c = "Absent" -> a.type = "NoneType"
          [] c = "NumericList" -> a.type = "list" /\ All(a.items, IsNumeric)
          [] c = "TextList" ->
                 a.type = "list" /\ a.items # <<>> /\ All(a.items, IsText)
          [] c = "NumericArray" ->
                 a.type = "ndarray" /\ All(Ravel(a.items), IsNumeric)}

\* the literal form of a category, by the token its literal opens with
OpensAs(c, tok) ==
    CASE c = "Text" -> tok = "'"
      [] c = "TextList" -> tok = "{"
      [] c \in {"NumericList", "NumericArray", "Absent"} -> tok = "["
      [] OTHER -> tok \in Numerals

\* the statement the script of the last feval holds for argument i
AssignOf(i) == script_file[Len(persistent_commands) + i]

\* C13: every argument of a feval belongs to at most one category; one that
\* belongs to a category is written in that category's literal form, and one
\* that belongs to none makes feval raise a TypeError naming a type, before
\* anything is written.
C13_CategoryOrTypeError ==
    IsFeval =>
        \A i \in 1..Len(flast.args) :
            LET a == flast.args[i]
                cats == Categories(a)
            IN  /\ Cardinality(cats) <= 1
                /\ cats = {} =>
                       /\ flast.error.type = "TypeError"
                       /\ ~flast.wrote
                /\ (cats # {} /\ flast.wrote) =>
                       \A c \in cats : OpensAs(c, AssignOf(i).arg[3])

\* the number a Python number or bool is, in tenths
PyNumber(a) ==
    IF a.type = "bool" THEN (IF a.val = <<"True">> THEN 10 ELSE 0)
    ELSE NumberOf(a.val[1])

\* v == r for an argument v and a loaded value r (arrays compared by their
\* elements)
PyEq(v, r) ==
    IF v.type = "str" THEN r.type = "str" /\ r.text = v.val
    ELSE IF v.type = "list"
    THEN r.type \in {"float", "ndarray"}
         /\ Len(r.nums) = Len(v.items)
         /\ \A i \in 1..Len(r.nums) : r.nums[i] = PyNumber(v.items[i])
    ELSE r.type = "float" /\ r.nums = <<PyNumber(v)>>

\* C14: a feval of a function that returns its argument, called with one
\* value of category Number, Text, Boolean or NumericList, returns a value
\* equal to the argument.
C14_IdentityRoundTrip ==
    (IsFeval /\ Len(flast.args) = 1
     /\ Categories(flast.args[1])
            \cap {"Number", "Text", "Boolean", "NumericList"} # {}) =>
        /\ flast.outcome = "returned"
        /\ PyEq(flast.args[1], flast.ret[1].value)

\* C15: in the script of a feval, a None argument at position i (counted
\* from 0) is the statement 'arg<i> = [];'.
C15_NoneIsEmptyMatrix ==
    (IsFeval /\ flast.wrote) =>
        \A i \in 1..Len(flast.args) :
            flast.args[i].type = "NoneType" =>
                AssignOf(i) = Stmt("assign", <<"arg" \o ToString(i - 1), "=",
                                               "[", "]", ";">>)

\* C15 witness: a script written for a call whose second argument is None,
\* holding 'arg1 = [];'.
C15_Witness ==
    /\ IsFeval /\ flast.wrote
    /\ Len(flast.args) = 2 /\ flast.args[2].type = "NoneType"
    /\ flast.args[1].type = "int"
    /\ script_file[2].arg = <<"arg1", "=", "[", "]", ";">>

\* the text with each backslash turned into a slash, and the text without
\* its first two characters when they are './'
Slashed(t) == [j \in 1..Len(t) |-> IF t[j] = "\\" THEN "/" ELSE t[j]]
WithoutMarker(t) ==
    IF Len(t) >= 2 /\ t[1] = "." /\ t[2] = "/"
    THEN [j \in 1..(Len(t) - 2) |-> t[j + 2]] ELSE t

\* C29: a str argument is written between single quotes as its text with
\* every backslash replaced by a slash and then, if that starts with './',
\* without those two characters; nothing else of the text differs.
C29_TextLiteral ==
    (IsFeval /\ flast.wrote) =>
        \A i \in 1..Len(flast.args) :
            flast.args[i].type = "str" =>
                AssignOf(i).arg =
                    <<"arg" \o ToString(i - 1), "=", "'">>
                    \o WithoutMarker(Slashed(flast.args[i].val))
                    \o <<"'", ";">>

\* C29 witness: the argument '././a' was written as './a', and (elsewhere)
\* '.\a' as 'a'.
C29_Witness ==
    /\ IsFeval /\ flast.wrote
    /\ \/ /\ flast.args[1] = Val("str", <<".", "/", ".", "/", "a">>)
          /\ script_file[1].arg = <<"arg0", "=", "'", ".", "/", "a", "'", ";">>
       \/ /\ flast.args[1] = Val("str", <<".", "\\", "a">>)
          /\ script_file[1].arg = <<"arg0", "=", "'", "a", "'", ";">>
          /\ Len(flast.args) = 2

\* C30: a bool argument is written as 1 (True) or 0 (False), an int or float
\* argument as its numeral; a bool is never written the way a number is,
\* as the text of the value.
C30_BoolAndNumberLiterals ==
    (IsFeval /\ flast.wrote) =>
        \A i \in 1..Len(flast.args) :
            LET a == flast.args[i]
                name == "arg" \o ToString(i - 1)
            IN  /\ a.type = "bool" =>
                       /\ AssignOf(i).arg =
                              <<name, "=",
                                IF a.val = <<"True">> THEN "1" ELSE "0", ";">>
                       /\ AssignOf(i).arg[3] \notin {"True", "False", "'"}
                /\ a.type \in {"int", "float"} =>
                       /\ AssignOf(i).arg = <<name, "=">> \o a.val \o <<";">>
                       /\ a.val[1] \in Numerals

\* C30 witness: True as the second argument was written as 'arg1 = 1;'.
C30_Witness ==
    /\ IsFeval /\ flast.wrote
    /\ Len(flast.args) = 2 /\ flast.args[2] = Val("bool", <<"True">>)
    /\ script_file[2].arg = <<"arg1", "=", "1", ";">>

----------------------------------------------------------------------------
\* DockerOctave.__init__ step by step: each engine call of a construction is
\* one step, and the calls of several constructions interleave (SpecConc).

Procs == 1..Constructors

concFrame == <<mgrVars, sessVars, callVars>>

At(p, where) == pc[p] = where
Goto(p, where) == pc' = [pc EXCEPT ![p] = where]

\* line 133: client.images.get(image_name)
ImagesGet(p) ==
    /\ At(p, "image")
    /\ Goto(p, IF image_present THEN "get" ELSE "build")
    /\ UNCHANGED <<found, handle, engVars, concFrame>>

\* lines 139-174: the build, which may fail
ImageBuild(p, ok) ==
    /\ At(p, "build")
    /\ image_present' = (image_present \/ ok)
    /\ Goto(p, IF ok THEN "get" ELSE "failed")
    /\ UNCHANGED <<found, handle, containers, next_container, concFrame>>

\* lines 98-99: client.containers.get(container_name) and the status it shows
Lookup(p) ==
    /\ At(p, "get")
    /\ LET id == ContainersGet(containers, container_name) IN
       /\ found' = [found EXCEPT ![p] = id]
       /\ handle' = [handle EXCEPT ![p] = id]
       /\ Goto(p, IF id = NotFound THEN "run"
                  ELSE IF StatusOf(containers, id) # "running" THEN "start"
                  ELSE "done")
    /\ UNCHANGED <<engVars, concFrame>>

\* line 101: self.container.start(); the engine refuses a removed container
Start(p) ==
    /\ At(p, "start")
    /\ IF Exists(containers, handle[p])
       THEN /\ containers' = ContainerStart(containers, handle[p])
            /\ Goto(p, "done")
       ELSE /\ UNCHANGED containers
            /\ Goto(p, "failed")
    /\ UNCHANGED <<found, handle, image_present, next_container, concFrame>>

\* lines 107-114: client.containers.run(..., name=container_name, ...)
Create(p) ==
    /\ At(p, "run")
    /\ IF RunConflicts(containers, RunName(container_name))
       THEN /\ Goto(p, "failed")
            /\ UNCHANGED <<handle, containers, next_container>>
       ELSE /\ containers' = ContainersRun(containers, RunName(container_name),
                                           next_container)
            /\ next_container' = next_container + 1
            /\ handle' = [handle EXCEPT ![p] = next_container]
            /\ Goto(p, "done")
    /\ UNCHANGED <<found, image_present, concFrame>>

\* a constructed session calls stop_container(): lines 419-428
StopContainer(p) ==
    /\ At(p, "done")
    /\ containers' = IF Exists(containers, handle[p])
                     THEN ContainerRemove(ContainerStop(containers, handle[p]),
                                          handle[p])
                     ELSE containers
    /\ Goto(p, "stopped")
    /\ UNCHANGED <<found, handle, image_present, next_container, concFrame>>

InitConc ==
    /\ pc = [p \in Procs |-> "image"]
    /\ found = [p \in Procs |-> NotFound]
    /\ handle = [p \in Procs |-> NotFound]
    /\ EngInit
    /\ MgrIdle
    /\ SessIdle
    /\ CallIdle

NextConc ==
    \E p \in Procs :
        \/ ImagesGet(p)
        \/ \E ok \in BOOLEAN : ImageBuild(p, ok)
        \/ Lookup(p)
        \/ Start(p)
        \/ Create(p)
        \/ StopContainer(p)

SpecConc == InitConc /\ [][NextConc]_vars

----------------------------------------------------------------------------
\* DockerOctave.feval step by step: writing the script, the pgrep exec, the
\* octave-cli exec and the load are steps that interleave with those of the
\* other callers (SpecRace).

\* callers with a feval under way side by side
Callers == 2

Threads == 1..Callers

\* lines 47, 57: what a session knows of where it works
Session(name) == [container_name |-> name, project_root |-> project_root]

\* lines 50-54: the shared directory and the two files in it
shared_dir(session) == <<session.project_root, "docker_setup", "octave_shared">>
script_path(session) == shared_dir(session) \o <<"run.m">>
result_path(session) == shared_dir(session) \o <<"result.mat">>

\* a file: what it holds and the caller whose call it was written for
NoContent == [by |-> 0, content |-> <<>>]

\* open(path, 'w') refusing to replace a file that is already there
WriteIfAbsent(old, new) == IF old = NoContent THEN new ELSE old
\* line 327: open(path, 'w') replaces what the file held
Overwrite(old, new) == new

\* the pgrep exec with a process found taken for a failure
AfterProbeAborting(stale) == IF stale THEN "failed" ELSE "probed"
\* lines 343-350: a process found is printed as a warning, the call goes on
AfterProbe(stale) == "probed"

\* the arguments of caller p's call
ArgsOf(p) == <<Val("int", <<ToString(p)>>)>>

\* the record of one caller's call: where it stands, the script it wrote,
\* the file octave-cli ran, what loadmat read, the pgrep and octave-cli execs
\* made, whether pgrep found a process, whether another call was under way
\* at any time during this one, and why it failed
NotCalled ==
    [pc |-> "idle", session |-> Session(container_name), code |-> <<>>,
     ran |-> NoContent, ret |-> NoContent, probes |-> 0, execs |-> 0,
     stale |-> FALSE, overlapped |-> FALSE, why |-> "none"]

InFlight(c) == c.pc \notin {"idle", "done", "failed"}

Overlaps(inv) ==
    [q \in DOMAIN inv |->
        [inv[q] EXCEPT !.overlapped =
            @ \/ (InFlight(inv[q])
                  /\ \E r \in DOMAIN inv \ {q} : InFlight(inv[r]))]]

callFrame == <<mgrVars, engVars, sessVars, concVars, octave>>

\* lines 246-328: marshal, build the script, write it to script_path
WriteScript(p) ==
    LET c == invocation[p]
        code == Script(<<>>, ArgsOf(p), <<>>, 1, "None")
        path == script_path(c.session)
    IN  /\ c.pc = "idle"
        /\ shared' = [shared EXCEPT ![path] =
                          Overwrite(@, [by |-> p, content |-> code])]
        /\ invocation' = Overlaps([invocation EXCEPT
                              ![p] = [c EXCEPT !.pc = "written", !.code = code]])
        /\ UNCHANGED callFrame

\* lines 342-350: pgrep octave-cli in the session's container finds the
\* octave-cli of another call on that container, or one left behind
ProbeStale(p, leftover) ==
    LET c == invocation[p]
        stale == leftover
                 \/ \E q \in Threads \ {p} :
                        /\ invocation[q].pc = "running"
                        /\ invocation[q].session.container_name
                              = c.session.container_name
    IN  /\ c.pc = "written"
        /\ invocation' = Overlaps([invocation EXCEPT
                              ![p] = [c EXCEPT !.pc = AfterProbe(stale),
                                               !.probes = @ + 1,
                                               !.stale = stale,
                                               !.why = IF AfterProbe(stale) = "failed"
                                                       THEN "stale" ELSE @]])
        /\ UNCHANGED <<shared, callFrame>>

\* line 358: octave-cli starts in the container and reads the file at
\* script_path under /workspace
ExecStart(p) ==
    LET c == invocation[p] IN
        /\ c.pc = "probed"
        /\ invocation' = Overlaps([invocation EXCEPT
                              ![p] = [c EXCEPT !.pc = "running",
                                               !.execs = @ + 1,
                                               !.ran = shared[script_path(c.session)]]])
        /\ UNCHANGED <<shared, callFrame>>

\* lines 358-373: octave-cli ends; with exit code 0 the script it ran has
\* saved its results to result_path, otherwise feval raises
ExecEnd(p, exit_code) ==
    LET c == invocation[p] IN
        /\ c.pc = "running"
        /\ IF exit_code = 0
           THEN /\ shared' = [shared EXCEPT ![result_path(c.session)] =
                                 [by |-> c.ran.by, content |-> c.ran.content]]
                /\ invocation' = Overlaps([invocation EXCEPT
                                      ![p] = [c EXCEPT !.pc = "ran"]])
           ELSE /\ invocation' = Overlaps([invocation EXCEPT
                                      ![p] = [c EXCEPT !.pc = "failed",
                                                       !.why = "exit"]])
                /\ UNCHANGED shared
        /\ UNCHANGED callFrame

\* lines 381-402: loadmat reads the file at result_path and feval returns
LoadResult(p) ==
    LET c == invocation[p] IN
        /\ c.pc = "ran"
        /\ invocation' = Overlaps([invocation EXCEPT
                              ![p] = [c EXCEPT !.pc = "done",
                                               !.ret = shared[result_path(c.session)]]])
        /\ UNCHANGED <<shared, callFrame>>

\* every caller on a session of some name, all in one working directory;
\* the containers of both names run
InitRace ==
    /\ \E names \in [Threads -> ContainerNames] :
          invocation = [p \in Threads |->
                           [NotCalled EXCEPT !.session = Session(names[p])]]
    /\ shared = [path \in UNION {{script_path(Session(n)), result_path(Session(n))} :
                                    n \in ContainerNames} |-> NoContent]
    /\ image_present = TRUE
    /\ containers = {Container(1, container_name, "running"),
                     Container(2, "octave_other", "running")}
    /\ next_container = 3
    /\ SessIdle /\ MgrIdle /\ ConcIdle
    /\ octave = NoSession

NextRace ==
    \E p \in Threads :
        \/ WriteScript(p)
        \/ \E leftover \in BOOLEAN : ProbeStale(p, leftover)
        \/ ExecStart(p)
        \/ \E exit_code \in {0, 1} : ExecEnd(p, exit_code)
        \/ LoadResult(p)

SpecRace == InitRace /\ [][NextRace]_vars

Named(cs, name) == {c \in cs : c.name = name}

\* C8: at most one container bears the fixed name and the constructions
\* create no other container, however their engine calls interleave; a
\* construction asks the engine to create only after its own lookup found
\* none, and a constructed session holds the container of that name.
C8_AtMostOneContainer ==
    /\ Cardinality(Named(containers, container_name)) <= 1
    /\ Cardinality(containers) <= 1
    /\ \A p \in Procs :
          /\ At(p, "run") => found[p] = NotFound
          /\ At(p, "done") =>
                \A c \in containers : c.id = handle[p] => c.name = container_name

\* C8 witness: the named container existed from the start, every construction
\* has completed holding it, none was created, and exactly one exists.
C8_Witness ==
    /\ \A p \in Procs : At(p, "done") /\ handle[p] = 1
    /\ next_container = 2
    /\ Cardinality(containers) = 1

----------------------------------------------------------------------------
\* Claims about a backend and its session (checked under SpecBackend).

\* C32: check_docker_availability tries the endpoints in a fixed order, the
\* default connection and then the alternate sockets, and returns True if and
\* only if an endpoint it pinged answered; with the docker package at hand
\* that is if and only if some endpoint of the list answers, and an endpoint
\* whose socket exists is pinged whenever no endpoint before it answered,
\* whatever the failures before it.
C32_EndpointsTriedInOrder ==
    last.op = "initialize_octave" =>
        LET eps == last.endpoints.states
            tried == last.endpoints.tried
            result == last.probes[1].result
        IN  /\ last.probes[1].backend = "docker"
            /\ result <=> \E k \in 1..Len(tried) : eps[tried[k]] = "answers"
            /\ \A k, l \in 1..Len(tried) : k < l => tried[k] < tried[l]
            /\ ~last.endpoints.package => ~result /\ tried = <<>>
            /\ last.endpoints.package =>
                  /\ result <=> \E i \in 1..4 : eps[i] = "answers"
                  /\ \A i \in 1..4 :
                        (/\ eps[i] # "absent"
                         /\ \A j \in 1..(i - 1) : eps[j] # "answers") =>
                            \E k \in 1..Len(tried) : tried[k] = i

\* C32 witness: the default connection and /var/run/docker.sock failed, the
\* OrbStack socket was absent, and the Docker Desktop socket answered.
C32_Witness ==
    /\ last.op = "initialize_octave"
    /\ last.endpoints.package
    /\ last.endpoints.states = <<"fails", "absent", "fails", "answers">>
    /\ last.endpoints.tried = <<1, 3, 4>>
    /\ last.probes[1].result
    /\ octave # NoSession

\* C34: run_simulation initializes only when the backend holds no session:
\* a run on a backend without a session goes through initialize_octave and
\* its Docker probe; a run on a backend with a session keeps that session,
\* runs no probe and makes no engine call (no ping, image check or container
\* lookup), and the engine is as before; the session a backend holds is
\* always the one its first successful initialization made.
C34_SessionLazyAndReused ==
    /\ [][IF octave = NoSession
          THEN last'.op = "initialize_octave" /\ last'.probes # <<>>
          ELSE /\ octave' = octave
               /\ last'.op = "none" /\ last'.probes = <<>>
               /\ flast'.engine = <<>>
               /\ UNCHANGED <<calls, first, engVars, container>>]_vars
    /\ [](octave \in {NoSession, first})

\* C34 witness: the second run on a session returned after writing and
\* running its script, with no initialization in that run.
C34_Witness ==
    /\ octave # NoSession /\ octave = first
    /\ last = NoOp
    /\ flast.op = "run_simulation" /\ flast.outcome = "returned" /\ flast.wrote
    /\ calls = 1
    /\ Len(persistent_commands) = 2 * Len(SetupStatements)

\* C40: every run_simulation on a session appends the whole statement list
\* of setup_octave_paths again: the persistent list of a session is whole
\* copies of that list, one per run, and a script written by a run starts
\* with all of them.
C40_SetupRegisteredEveryRun ==
    /\ [][octave # NoSession =>
             persistent_commands' = persistent_commands \o SetupStatements]_vars
    /\ [](octave # NoSession =>
             /\ Len(persistent_commands) >= Len(SetupStatements)
             /\ Len(persistent_commands) % Len(SetupStatements) = 0
             /\ \A i \in 1..Len(persistent_commands) :
                   persistent_commands[i] =
                       SetupStatements[((i - 1) % Len(SetupStatements)) + 1]
             /\ flast.wrote =>
                   SubSeq(script_file, 1, Len(persistent_commands))
                       = persistent_commands)

\* C40 witness: after two runs the list holds each setup statement twice and
\* the script of the second run replays all eight.
C40_Witness ==
    /\ octave # NoSession
    /\ Len(persistent_commands) = 2 * Len(SetupStatements)
    /\ persistent_commands[1] = persistent_commands[Len(SetupStatements) + 1]
    /\ persistent_commands[1].stmt = "eval"
    /\ flast.wrote
    /\ SubSeq(script_file, 1, 2 * Len(SetupStatements)) = persistent_commands

----------------------------------------------------------------------------
\* Claims about one construction (checked under SpecConstruct).

IsConstruct(f) == f.op = "__init__"
Called(f, call) == \E i \in 1..Len(f.engine) : f.engine[i] = call

\* C31: check_running_processes and kill_running_processes never raise:
\* when the exec in the container fails, check_running_processes returns an
\* empty list and kill_running_processes returns False; stop_container
\* returns normally whether stop or remove failed or not.
C31_HelpersNeverRaise ==
    LET failed == flast.engine = <<"exec_run raises">> IN
    /\ flast.op \in {"check_running_processes", "kill_running_processes",
                     "stop_container"} =>
          flast.outcome = "returned" /\ flast.error = NoError
    /\ (flast.op = "check_running_processes" /\ failed) => flast.ret = <<>>
    /\ (flast.op = "kill_running_processes" /\ failed) => flast.ret = FALSE

\* C31 witness: kill_running_processes returned False from an exec that
\* raised in a container that stop_container had left stopped but not removed.
C31_Witness ==
    /\ flast.op = "kill_running_processes"
    /\ flast.engine = <<"exec_run raises">>
    /\ flast.outcome = "returned" /\ flast.ret = FALSE
    /\ Exists(containers, container) /\ ~Running(containers, container)

\* C25: a construction that returns found the named container running and
\* made no start or create call, or found it not running and started it
\* without creating one, or found none and created one that runs the
\* keep-alive command with the working directory mounted read-write at
\* /workspace; the engine then has exactly one container of the name and the
\* session holds it.
C25_ContainerByState ==
    [][(IsConstruct(flast') /\ flast'.outcome = "returned") =>
        LET name == flast'.args[1]
            id == ContainersGet(containers, name)
        IN
        /\ (id # NotFound /\ StatusOf(containers, id) = "running") =>
               /\ containers' = containers
               /\ container' = id
               /\ ~Called(flast', "container.start")
               /\ ~Called(flast', "containers.run")
        /\ (id # NotFound /\ StatusOf(containers, id) # "running") =>
               /\ containers' = {IF c.id = id THEN [c EXCEPT !.status = "running"]
                                 ELSE c : c \in containers}
               /\ container' = id
               /\ next_container' = next_container
               /\ Called(flast', "container.start")
               /\ ~Called(flast', "containers.run")
        /\ id = NotFound =>
               \E c \in containers' :
                   /\ containers' = containers \cup {c} /\ c \notin containers
                   /\ c.name = name /\ c.status = "running"
                   /\ c.volumes = [host |-> project_root, bind |-> "/workspace",
                                   mode |-> "rw"]
                   /\ c.command = "tail -f /dev/null"
                   /\ container' = c.id
                   /\ ~Called(flast', "container.start")
        /\ Cardinality(Named(containers', name)) = 1
        /\ \E c \in containers' : c.id = container' /\ c.name = name]_vars

\* C25 witness: a construction found the container stopped, started it and
\* returned holding it.
C25_Witness ==
    /\ IsConstruct(flast) /\ flast.outcome = "returned"
    /\ flast.engine = <<"ping", "images.get", "containers.get", "container.start">>
    /\ Running(containers, container)
    /\ Cardinality(containers) = 2

\* C26: a construction whose image build fails raises an error that holds
\* every line the build gave, after one build call and without any container
\* call; a construction that finds the image makes no build call.
C26_BuildFailureCarriesLog ==
    [][IsConstruct(flast') =>
        /\ image_present => ~Called(flast', "api.build")
        /\ (~image_present /\ ~image_present' /\ Called(flast', "api.build")) =>
               /\ flast'.outcome = "raised"
               /\ flast'.engine = <<"ping", "images.get", "api.build">>
               /\ UNCHANGED <<containers, next_container>>
               /\ flast'.error.type = "RuntimeError"
               /\ flast'.error.output = flast'.output]_vars


----------------------------------------------------------------------------
\* Claims about feval calls that interleave (checked under SpecRace).

Returned(p) == invocation[p].pc = "done"
\* the call ran the script written for it and returns what that script saved
Own(p) ==
    /\ invocation[p].ran = [by |-> p, content |-> invocation[p].code]
    /\ invocation[p].ret = [by |-> p, content |-> invocation[p].code]
SameSession(p, q) == invocation[p].session = invocation[q].session

C22_SessionsDoNotInterfere ==
    \A p \in Threads :
        (Returned(p)
         /\ \A q \in Threads \ {p} :
                invocation[q].session.container_name
                   # invocation[p].session.container_name)
        => Own(p)

\* C28: octave-cli is started only by a call that has made its pgrep exec,
\* once; a call runs octave-cli at most once, and exactly once when it got
\* past the pgrep exec; no call fails because pgrep found a process.
C28_ProbeThenExecuteOnce ==
    /\ [][\A p \in Threads :
            invocation'[p].execs # invocation[p].execs =>
                /\ invocation[p].pc = "probed" /\ invocation[p].probes = 1
                /\ invocation[p].execs = 0 /\ invocation'[p].execs = 1]_vars
    /\ [](\A p \in Threads :
            /\ invocation[p].pc \in {"running", "ran", "done"} =>
                   invocation[p].probes = 1 /\ invocation[p].execs = 1
            /\ invocation[p].pc = "failed" =>
                   invocation[p].why = "exit" /\ invocation[p].execs = 1)

\* C28 witness: pgrep found the octave-cli of another call, and the call
\* ran its script once and returned.
C28_Witness ==
    \E p \in Threads :
        /\ Returned(p) /\ invocation[p].stale
        /\ invocation[p].probes = 1 /\ invocation[p].execs = 1

====
